---- MODULE Spec2Model ----
(***************************************************************************)
(* A model of game/terrain.py: the growable voxel grid (Terrain), its      *)
(* change notification, and the incremental surface mesh (SurfaceMesh).    *)
(***************************************************************************)
EXTENDS Integers, Sequences, FiniteSets, TLC

(* ---------------- terrain types and faces (terrain.py:11-21) ----------- *)
EMPTY == 0
GRASS == 1
MOUNTAIN == 2
DESERT == 3
WATER == 4
UNKNOWN == 5

TOP == 0
FRONT == 1
BOTTOM == 2
BACK == 3
LEFT == 4
RIGHT == 5

FACES == <<TOP, FRONT, BOTTOM, BACK, LEFT, RIGHT>>

NEIGHBORS ==
  [f \in 0..5 |->
     CASE f = TOP    -> <<0, 1, 0, BOTTOM>>
       [] f = FRONT  -> <<0, 0, 1, BACK>>
       [] f = BOTTOM -> <<0, -1, 0, TOP>>
       [] f = BACK   -> <<0, 0, -1, FRONT>>
       [] f = LEFT   -> <<-1, 0, 0, RIGHT>>
       [] f = RIGHT  -> <<1, 0, 0, LEFT>>]

(* ---------------- bounds of the model ---------------------------------- *)
\* A write covers only cells whose coordinates sum to at most MaxReach: the
\* origin voxel and its neighbours along each axis.
MaxReach == 1
\* A write carries at most MaxVolume cells.
MaxVolume == 2
\* At most MaxSets calls of Terrain.set are made.
MaxSets == 3
\* At most MaxObservers observers are registered.
MaxObservers == 2

\* The cell values a write may carry.
CellValues == {EMPTY, GRASS, UNKNOWN}

Max(a, b) == IF a >= b THEN a ELSE b

\* The coordinates of an array of the given shape.
Box(shape) == (0..(shape[1] - 1)) \X (0..(shape[2] - 1)) \X (0..(shape[3] - 1))

(* ---------------- Terrain (terrain.py:43-106) --------------------------- *)
\* Terrain.__init__: one voxel, UNKNOWN.
InitVoxels == [shape |-> <<1, 1, 1>>, cells |-> [c \in Box(<<1, 1, 1>>) |-> UNKNOWN]]

\* Does (x, y, z) + shape(data) reach past the existing array on any axis?
\* (terrain.py:72-78)
Exceeds(v, x, y, z, data) ==
  \/ data.shape[1] + x > v.shape[1]
  \/ data.shape[2] + y > v.shape[2]
  \/ data.shape[3] + z > v.shape[3]

\* As GrownShape, but taking the extent of the new data alone.
GrownShapeOfData(v, x, y, z, data) ==
  <<data.shape[1] + x, data.shape[2] + y, data.shape[3] + z>>

\* The shape of the reallocated array (terrain.py:80-83).
GrownShape(v, x, y, z, data) ==
  << Max(v.shape[1], data.shape[1] + x),
     Max(v.shape[2], data.shape[2] + y),
     Max(v.shape[3], data.shape[3] + z) >>

\* As Reallocate, but the old contents are not copied.
ReallocateNoCopy(v, shp) ==
  [shape |-> shp, cells |-> [c \in Box(shp) |-> UNKNOWN]]

\* As Reallocate, but the new array is zeros (EMPTY) rather than UNKNOWN.
ReallocateZeros(v, shp) ==
  [shape |-> shp,
   cells |-> [c \in Box(shp) |-> IF c \in Box(v.shape) THEN v.cells[c] ELSE EMPTY]]

\* empty(shape).fill(UNKNOWN), then the old contents copied into the corner
\* (terrain.py:79-85).
Reallocate(v, shp) ==
  LET filled == [c \in Box(shp) |-> UNKNOWN]
  IN  [shape |-> shp,
       cells |-> [c \in Box(shp) |-> IF c \in Box(v.shape) THEN v.cells[c] ELSE filled[c]]]

\* self.voxels[x:new[0], y:new[1], z:new[2]] = voxels (terrain.py:87).
Overwrite(v, x, y, z, data) ==
  [v EXCEPT !.cells =
     [c \in Box(v.shape) |->
        IF /\ c[1] >= x /\ c[1] < x + data.shape[1]
           /\ c[2] >= y /\ c[2] < y + data.shape[2]
           /\ c[3] >= z /\ c[3] < z + data.shape[3]
        THEN data.cells[<<c[1] - x, c[2] - y, c[3] - z>>]
        ELSE v.cells[c]]]

\* The array Terrain.set leaves in self.voxels before it notifies
\* (terrain.py:72-87).
Written(v, x, y, z, data) ==
  LET grown == IF Exceeds(v, x, y, z, data)
               THEN Reallocate(v, GrownShape(v, x, y, z, data))
               ELSE v
  IN  Overwrite(grown, x, y, z, data)

RECURSIVE dictSkipsEmptyFrom(_, _, _)
\* As dictFrom, but only Empty cells are left out.
dictSkipsEmptyFrom(v, i, acc) ==
  IF i >= v.shape[1] * v.shape[2] * v.shape[3] THEN acc
  ELSE LET c == << i \div (v.shape[2] * v.shape[3]), (i \div v.shape[3]) % v.shape[2],
                   i % v.shape[3] >>
       IN  dictSkipsEmptyFrom(v, i + 1,
                 IF v.cells[c] # EMPTY
                 THEN [k \in (DOMAIN acc) \cup {c} |-> IF k = c THEN v.cells[c] ELSE acc[k]]
                 ELSE acc)

RECURSIVE dictFrom(_, _, _)
\* The generator of Terrain.dict from its i-th coordinate (from 0) on, x
\* outermost and z innermost, with the entries made so far (terrain.py:61-65).
dictFrom(v, i, acc) ==
  IF i >= v.shape[1] * v.shape[2] * v.shape[3] THEN acc
  ELSE LET c == << i \div (v.shape[2] * v.shape[3]), (i \div v.shape[3]) % v.shape[2],
                   i % v.shape[3] >>
       IN  dictFrom(v, i + 1,
                 IF v.cells[c] \notin {EMPTY, UNKNOWN}
                 THEN [k \in (DOMAIN acc) \cup {c} |-> IF k = c THEN v.cells[c] ELSE acc[k]]
                 ELSE acc)

\* Terrain.dict (terrain.py:57-65).
dict(v) == dictFrom(v, 0, << >>)

(* ---------------- face geometry (terrain.py:109-129, 167-189) ----------- *)
\* Texture coordinates are kept in eighths, so that the offsets and the
\* extent of the mesh tests (0.25, 0.5, 0.75, 0.125) are integers.
TextureExtent == 1

TextureOffsets ==
  [t \in {GRASS, MOUNTAIN} |-> IF t = GRASS THEN <<2, 4>> ELSE <<4, 6>>]

\* The rows a surface factory hands out (the mesh tests' array).
SlabRows == 1000

_cube ==
  [n \in 1..8 |->
     CASE n = 3 -> <<0, 0, 0>>
       [] n = 4 -> <<1, 0, 0>>
       [] n = 8 -> <<0, 1, 0>>
       [] n = 7 -> <<1, 1, 0>>
       [] n = 1 -> <<0, 0, 1>>
       [] n = 2 -> <<1, 0, 1>>
       [] n = 5 -> <<0, 1, 1>>
       [] n = 6 -> <<1, 1, 1>>]

_s(n) == _cube[n] \o <<0, 0>>

\* As FaceCorners, with the triangles of the right face begun at another
\* corner.
FaceCornersRightTurned ==
  [f \in 0..5 |->
     CASE f = TOP    -> <<7, 8, 5, 7, 6, 5>>
       [] f = FRONT  -> <<5, 1, 2, 5, 6, 2>>
       [] f = BOTTOM -> <<1, 3, 4, 1, 2, 4>>
       [] f = BACK   -> <<3, 8, 7, 3, 4, 7>>
       [] f = LEFT   -> <<3, 1, 5, 3, 8, 5>>
       [] f = RIGHT  -> <<4, 7, 2, 6, 7, 2>>]

\* The corners of _top, _front, _bottom, _back, _left and _right
\* (terrain.py:124-129).
FaceCorners ==
  [f \in 0..5 |->
     CASE f = TOP    -> <<7, 8, 5, 7, 6, 5>>
       [] f = FRONT  -> <<5, 1, 2, 5, 6, 2>>
       [] f = BOTTOM -> <<1, 3, 4, 1, 2, 4>>
       [] f = BACK   -> <<3, 8, 7, 3, 4, 7>>
       [] f = LEFT   -> <<3, 1, 5, 3, 8, 5>>
       [] f = RIGHT  -> <<2, 4, 7, 2, 6, 7>>]

\* _top, _front, ...: six vertices (x, y, z, 0, 0) per face.
FacePositions(f) == [i \in 1..6 |-> _s(FaceCorners[f][i])]

\* toptex, shared by every face.
FaceTexture ==
  << <<0, 0, 0, TextureExtent, 0>>,
     <<0, 0, 0, 0, 0>>,
     <<0, 0, 0, 0, TextureExtent>>,
     <<0, 0, 0, TextureExtent, 0>>,
     <<0, 0, 0, TextureExtent, TextureExtent>>,
     <<0, 0, 0, 0, TextureExtent>> >>

AddRows(a, b) == [k \in 1..5 |-> a[k] + b[k]]

\* SurfaceMesh._makeFace (terrain.py:195-205).
_makeFace(face, textureType, x, y, z) ==
  LET st == TextureOffsets[textureType]
      offset == <<x, y, z, st[1], st[2]>>
      pos == FacePositions(face)
      tex == FaceTexture
  IN  [i \in 1..6 |-> AddRows(AddRows(pos[i], tex[i]), offset)]

(* ---------------- SurfaceMesh (terrain.py:132-368) ---------------------- *)
\* A surface is (update array, data array, important marker); the two arrays
\* are one array in the tests.  The array is kept as its written prefix: every
\* row past the prefix still holds the zeros the factory filled it with.
ZeroRow == <<0, 0, 0, 0, 0>>

NewSurface(rows) == [data |-> <<>>, important |-> 0, rows |-> rows]

\* Row i (from 0) of a surface's array; a negative index counts from the end.
RowAt(s, i) ==
  LET j == IF i < 0 THEN s.rows + i ELSE i
  IN  IF j >= 0 /\ j < Len(s.data) THEN s.data[j + 1] ELSE ZeroRow

\* array[pos:pos + Len(rows)] = rows, for a slice that lies inside the array.
SetRows(s, pos, rows) ==
  [s EXCEPT !.data =
     IF pos = Len(s.data) THEN s.data \o rows
     ELSE [i \in 1..Max(Len(s.data), pos + Len(rows)) |->
             IF i > pos /\ i <= pos + Len(rows) THEN rows[i - pos]
             ELSE IF i <= Len(s.data) THEN s.data[i] ELSE ZeroRow]]

\* The state of a SurfaceMesh: _voxelToSurface and _surfaces, with the number
\* of errors it logged, whether the running call has raised, how many blocks
\* the latest changed call relocated, and whether the ranges of the tracked
\* keys tiled the live region after every face it has handled so far.
NewMesh(rows) ==
  [v2s |-> << >>, surfaces |-> <<NewSurface(rows)>>, logged |-> 0, raised |-> FALSE,
   moved |-> 0, tiled |-> TRUE]

\* The rows a tracked key points at.
Range(m, key) == m.v2s[key][1] .. (m.v2s[key][1] + m.v2s[key][2] - 1)

\* The ranges of the tracked keys are six rows each, pairwise disjoint, and
\* together exactly the live rows of the current surface.
Tiling(m) ==
  /\ \A k \in DOMAIN m.v2s : m.v2s[k][2] = 6
  /\ \A k1, k2 \in DOMAIN m.v2s : k1 # k2 => Range(m, k1) \cap Range(m, k2) = {}
  /\ UNION {Range(m, k) : k \in DOMAIN m.v2s} = 0 .. (m.surfaces[Len(m.surfaces)].important - 1)

\* The same, by counting: n keys of six rows each at the n offsets 0, 6, ...
\* below an important marker of 6 n.
Packed(m) ==
  LET n == Cardinality(DOMAIN m.v2s)
  IN  /\ m.surfaces[Len(m.surfaces)].important = 6 * n
      /\ {m.v2s[k] : k \in DOMAIN m.v2s} = {<<6 * i, 6>> : i \in 0..(n - 1)}

Observe(m) == [m EXCEPT !.tiled = @ /\ Packed(m)]

Tracked(m, key) == key \in DOMAIN m.v2s

Current(m) == m.surfaces[Len(m.surfaces)]

SetCurrent(m, s) == [m EXCEPT !.surfaces[Len(m.surfaces)] = s]

Pop(m, key) == [m EXCEPT !.v2s = [k \in (DOMAIN m.v2s) \ {key} |-> m.v2s[k]]]

Put(m, key, val) ==
  [m EXCEPT !.v2s = [k \in (DOMAIN m.v2s) \cup {key} |-> IF k = key THEN val ELSE m.v2s[k]]]

\* self._surfaces[-1][0][pos:pos + len(vertices)] = vertices, then the key is
\* tracked and the important marker advanced (terrain.py:212-214).
Store(m, s, key, pos, vertices) ==
  Put(SetCurrent(m, [s EXCEPT !.important = s.important + Len(vertices)]),
      key, <<pos, Len(vertices)>>)

\* As _append, but a slice cut short by the end of the array takes the rows
\* that fit, and the marker advances by them.
_appendClipped(m, key, vertices) ==
  IF Tracked(m, key) THEN [m EXCEPT !.raised = TRUE]
  ELSE LET s == Current(m)
           fit == IF s.important + Len(vertices) > s.rows
                  THEN Max(s.rows - s.important, 0) ELSE Len(vertices)
       IN  Put(SetCurrent(m, [SetRows(s, s.important, SubSeq(vertices, 1, fit))
                                EXCEPT !.important = s.important + fit]),
               key, <<s.important, fit>>)

\* SurfaceMesh._append (terrain.py:208-214).  The assert raises for a tracked
\* key; the slice assignment raises when the slice is cut short by the end of
\* the array, before anything is stored.
_append(m, key, vertices) ==
  IF Tracked(m, key) THEN [m EXCEPT !.raised = TRUE]
  ELSE IF Current(m).important + Len(vertices) > Current(m).rows
       THEN [m EXCEPT !.raised = TRUE]
       ELSE Store(m, SetRows(Current(m), Current(m).important, vertices), key,
                  Current(m).important, vertices)

\* As Possibilities, with the candidate for a top face taken at the voxel of
\* the first vertex itself.
PossibilitiesTopInPlace(mx, my, mz) ==
  << <<mx, my, mz, TOP>>,
     <<mx, my - 1, mz - 1, FRONT>>,
     <<mx, my, mz - 1, BOTTOM>>,
     <<mx, my, mz, BACK>>,
     <<mx, my, mz, LEFT>>,
     <<mx - 1, my, mz - 1, RIGHT>> >>

\* The six candidate owners of a block whose first vertex is at (mx, my, mz)
\* (terrain.py:233-240).
Possibilities(mx, my, mz) ==
  << <<mx - 1, my - 1, mz, TOP>>,
     <<mx, my - 1, mz - 1, FRONT>>,
     <<mx, my, mz - 1, BOTTOM>>,
     <<mx, my, mz, BACK>>,
     <<mx, my, mz, LEFT>>,
     <<mx - 1, my, mz - 1, RIGHT>> >>

\* As FindOwner, but when no owner is found the marker is lowered all the same.
FindOwnerShrinks(m, s, poss, hits, start, length, end) ==
  IF hits = {}
  THEN SetCurrent([m EXCEPT !.logged = m.logged + 1], [s EXCEPT !.important = end])
  ELSE SetCurrent(Put([m EXCEPT !.moved = @ + 1],
                      poss[CHOOSE i \in hits : \A j \in hits : i <= j], <<start, length>>),
                  [SetRows(s, start, [i \in 1..(s.important - end) |-> RowAt(s, end + i - 1)])
                     EXCEPT !.important = end])

\* As Relocate, but the key of the moved block keeps its old offset.
RelocateKeepsOffset(m, s, key, start, length, end) ==
  SetCurrent([m EXCEPT !.moved = @ + 1],
             [SetRows(s, start, [i \in 1..(s.important - end) |-> RowAt(s, end + i - 1)])
                EXCEPT !.important = end])

\* As Relocate, but the key of the moved block is forgotten.
RelocateLoses(m, s, key, start, length, end) ==
  SetCurrent(Pop([m EXCEPT !.moved = @ + 1], key),
             [SetRows(s, start, [i \in 1..(s.important - end) |-> RowAt(s, end + i - 1)])
                EXCEPT !.important = end])

\* The tail block found to belong to key: the key now points at start, the
\* block is copied there and the marker drops to end (terrain.py:255-260).
Relocate(m, s, key, start, length, end) ==
  SetCurrent(Put([m EXCEPT !.moved = @ + 1], key, <<start, length>>),
             [SetRows(s, start, [i \in 1..(s.important - end) |-> RowAt(s, end + i - 1)])
                EXCEPT !.important = end])

\* The search for the owner of the block at end (terrain.py:231-250): the
\* first candidate tracked at (end, 6), or an error logged.
FindOwner(m, s, poss, hits, start, length, end) ==
  IF hits = {}
  THEN [m EXCEPT !.logged = m.logged + 1]
  ELSE Relocate(m, s, poss[CHOOSE i \in hits : \A j \in hits : i <= j], start, length, end)

\* As _compact, but the owner of the tail block is searched for even when the
\* removed block is the tail block itself.
_compactSearches(m, start, length) ==
  LET s == Current(m)
      end == s.important - 6
      first == RowAt(s, end)
      poss == Possibilities(first[1], first[2], first[3])
  IN  FindOwner(m, s, poss,
                {i \in 1..6 : Tracked(m, poss[i]) /\ m.v2s[poss[i]] = <<end, 6>>},
                start, length, end)

\* SurfaceMesh._compact (terrain.py:217-260).
_compact(m, start, length) ==
  LET s == Current(m)
      end == s.important - 6
      first == RowAt(s, end)
      poss == Possibilities(first[1], first[2], first[3])
  IN  IF start = end
      THEN SetCurrent(m, [s EXCEPT !.important = s.important - length])
      ELSE FindOwner(m, s, poss,
                     {i \in 1..6 : Tracked(m, poss[i]) /\ m.v2s[poss[i]] = <<end, 6>>},
                     start, length, end)

InBounds(v, x, y, z) ==
  /\ x >= 0 /\ y >= 0 /\ z >= 0
  /\ x < v.shape[1] /\ y < v.shape[2] /\ z < v.shape[3]

\* As RemoveFace, but the face of the neighbour that comes into view is not
\* added.
RemoveFaceAlone(m, v, x, y, z, face) ==
  LET key == <<x, y, z, face>>
  IN  IF Tracked(m, key)
      THEN _compact(Pop(m, key), m.v2s[key][1], m.v2s[key][2])
      ELSE m

\* One pass of the loop of SurfaceMesh._removeVoxel (terrain.py:264-302).
RemoveFace(m, v, x, y, z, face) ==
  LET key == <<x, y, z, face>>
  IN  IF Tracked(m, key)
      THEN _compact(Pop(m, key), m.v2s[key][1], m.v2s[key][2])
      ELSE LET nb == NEIGHBORS[face]
               nx == x + nb[1]
               ny == y + nb[2]
               nz == z + nb[3]
               rface == nb[4]
           IN  IF ~InBounds(v, nx, ny, nz) THEN m
               ELSE IF v.cells[<<nx, ny, nz>>] \in {EMPTY, UNKNOWN} THEN m
               ELSE IF Tracked(m, <<nx, ny, nz, rface>>) THEN m
               ELSE _append(m, <<nx, ny, nz, rface>>,
                            _makeFace(rface, v.cells[<<nx, ny, nz>>], nx, ny, nz))

\* As _exposed, but without the test for a negative coordinate: the array is
\* then read at an index that counts from its end.
_exposedWraps(v, x, y, z, face) ==
  LET nb == NEIGHBORS[face]
      nx == x + nb[1]
      ny == y + nb[2]
      nz == z + nb[3]
  IN  \/ nx >= v.shape[1] \/ ny >= v.shape[2] \/ nz >= v.shape[3]
      \/ v.cells[<<nx % v.shape[1], ny % v.shape[2], nz % v.shape[3]>>] \in {EMPTY, UNKNOWN}

\* SurfaceMesh._exposed (terrain.py:305-317).
_exposed(v, x, y, z, face) ==
  LET nb == NEIGHBORS[face]
      nx == x + nb[1]
      ny == y + nb[2]
      nz == z + nb[3]
  IN  \/ ~InBounds(v, nx, ny, nz)
      \/ v.cells[<<nx, ny, nz>>] \in {EMPTY, UNKNOWN}

\* One pass of the loop of SurfaceMesh._addVoxel (terrain.py:321-349).
AddFace(m, v, x, y, z, face) ==
  LET key == <<x, y, z, face>>
  IN  IF Tracked(m, key) THEN m
      ELSE IF _exposed(v, x, y, z, face)
      THEN _append(m, key, _makeFace(face, v.cells[<<x, y, z>>], x, y, z))
      ELSE LET nb == NEIGHBORS[face]
               nkey == <<x + nb[1], y + nb[2], z + nb[3], nb[4]>>
           IN  IF ~Tracked(m, nkey) THEN m
               ELSE _compact(Pop(m, nkey), m.v2s[nkey][1], m.v2s[nkey][2])

RECURSIVE _removeVoxelFrom(_, _, _, _, _, _)
\* SurfaceMesh._removeVoxel from the i-th face of FACES on; a raised
\* exception ends the loop.
_removeVoxelFrom(m, v, x, y, z, i) ==
  IF i > Len(FACES) \/ m.raised THEN m
  ELSE _removeVoxelFrom(Observe(RemoveFace(m, v, x, y, z, FACES[i])), v, x, y, z, i + 1)

_removeVoxel(m, v, x, y, z) == _removeVoxelFrom(m, v, x, y, z, 1)

RECURSIVE _addVoxelFrom(_, _, _, _, _, _)
\* SurfaceMesh._addVoxel from the i-th face of FACES on.
_addVoxelFrom(m, v, x, y, z, i) ==
  IF i > Len(FACES) \/ m.raised THEN m
  ELSE _addVoxelFrom(Observe(AddFace(m, v, x, y, z, FACES[i])), v, x, y, z, i + 1)

_addVoxel(m, v, x, y, z) == _addVoxelFrom(m, v, x, y, z, 1)

\* The i-th coordinate (from 0) of the nested x, y, z loops of
\* SurfaceMesh.changed (terrain.py:361-363).
RegionAt(position, shape, i) ==
  << position[1] + (i \div (shape[2] * shape[3])),
     position[2] + ((i \div shape[3]) % shape[2]),
     position[3] + (i % shape[3]) >>

\* As Visit, but a material voxel is taken out of the mesh and added again.
VisitRebuild(m, v, c) ==
  IF v.cells[c] = EMPTY THEN _removeVoxel(m, v, c[1], c[2], c[3])
  ELSE IF v.cells[c] # UNKNOWN
       THEN _addVoxel(_removeVoxel(m, v, c[1], c[2], c[3]), v, c[1], c[2], c[3])
  ELSE m

\* As Visit, but a voxel that holds Unknown is taken out of the mesh as an
\* empty one is.
VisitUnknownRemoves(m, v, c) ==
  IF v.cells[c] \in {EMPTY, UNKNOWN} THEN _removeVoxel(m, v, c[1], c[2], c[3])
  ELSE _addVoxel(m, v, c[1], c[2], c[3])

\* The body of the loops of SurfaceMesh.changed (terrain.py:365-368).
Visit(m, v, c) ==
  IF v.cells[c] = EMPTY THEN _removeVoxel(m, v, c[1], c[2], c[3])
  ELSE IF v.cells[c] # UNKNOWN THEN _addVoxel(m, v, c[1], c[2], c[3])
  ELSE m

RECURSIVE changedFrom(_, _, _, _, _)
changedFrom(m, v, position, shape, i) ==
  IF i >= shape[1] * shape[2] * shape[3] \/ m.raised THEN m
  ELSE changedFrom(Visit(m, v, RegionAt(position, shape, i)), v, position, shape, i + 1)

\* SurfaceMesh.changed (terrain.py:352-368), over the terrain's array v.
changed(m, v, position, shape) ==
  changedFrom([m EXCEPT !.moved = 0], v, position, shape, 0)

\* SurfaceMesh.__init__ (terrain.py:158-192).
SurfaceMeshInit(v, rows) == changed(NewMesh(rows), v, <<0, 0, 0>>, v.shape)

(* ---------------- World and Gam3Server (gam3/world.py, gam3/network.py) -- *)
\* At most MaxPlayers players are created.
MaxPlayers == 4

\* The client connections, each served by its own Gam3Server.
Clients == {"c1", "c2"}

\* None, as the value of Gam3Server.player before the introduction.  A player
\* is named by its place in the order of creation, from 1: the model's
\* id(player).
NoPlayer == 0

\* The directions of game.direction, complex numbers kept as the pair of their
\* real and imaginary parts: BACKWARD is the additive inverse of FORWARD and
\* RIGHT that of LEFT (player.py:20-22), and the two zeros are 0j.  LEFT and
\* RIGHT of game.direction are DirLEFT and DirRIGHT here, apart from the faces.
FORWARD == <<0, 1>>
BACKWARD == <<0, -1>>
DirLEFT == <<-1, 0>>
DirRIGHT == <<1, 0>>
FORWARD_ZERO == <<0, 0>>
SIDEWAYS_ZERO == <<0, 0>>

\* None, as a direction: no movement (player.py:30).
NoDirection == << >>

\* At most MaxTurns calls of Player.setDirection are made.
MaxTurns == 2

\* World.__init__ (world.py:47-55).  made holds every Player object created,
\* by name; players and observers are the world's lists.  turns counts the
\* calls of Player.setDirection made and turned names the player of the
\* latest; recorded is what the recording observer of the world tests has
\* noted.
WorldInit ==
  [made |-> <<>>, players |-> <<>>, observers |-> <<>>, turns |-> 0, turned |-> NoPlayer,
   recorded |-> <<>>]

\* The recording observer of the world tests (test_world.py:80-90,
\* test/util.py:37-59), as it is named in World.observers.
Observer == "observer"

\* Whether the list holds x.
Holds(list, x) == \E i \in 1..Len(list) : list[i] = x

\* list.remove(x) of a list that holds x: the list without the first x.
ListRemove(list, x) ==
  LET i == CHOOSE k \in 1..Len(list) : list[k] = x /\ \A j \in 1..(k - 1) : list[j] # x
  IN  SubSeq(list, 1, i - 1) \o SubSeq(list, i + 1, Len(list))

\* A callback of the recording observer: it notes the call, the player and
\* whether the world holds the player at that moment.
ObserverCalled(st, call, player) ==
  [st EXCEPT !.world.recorded =
     Append(@, [call |-> call, player |-> player,
                existent |-> Holds(st.world.players, player)])]

\* Player.__init__ (player.py:33-39): no direction, no observers.
PlayerInit == [observers |-> <<>>, direction |-> NoDirection]

\* Gam3Server.__init__ (network.py:28-32).  delayed counts the calls of
\* sendExistingState waiting on the clock and sent is what callRemote was
\* given, in order.  ran, existing and mark record, for the claims, that
\* sendExistingState has run, the players the world held when it last ran and
\* the number of players made by then; lost, that connectionLost has been
\* called, and lostAt the number of commands sent before that call.
Gam3ServerInit ==
  [player |-> NoPlayer, players |-> {}, delayed |-> 0, sent |-> <<>>,
   ran |-> FALSE, existing |-> {}, mark |-> 0, lost |-> FALSE, lostAt |-> 0]

\* Gam3Server.identifierForPlayer (network.py:154-160): the server's state
\* after the call; the identifier returned is the player's name.
identifierForPlayer(srv, player) == [srv EXCEPT !.players = @ \cup {player}]

\* Gam3Server.notifyPlayerCreated (network.py:58-65).  Of the command's
\* arguments the identifier is kept.
notifyPlayerCreated(srv, player) ==
  [identifierForPlayer(srv, player) EXCEPT
     !.sent = Append(@, [command |-> "NewPlayer", identifier |-> player])]

\* Player.addObserver (player.py:119-124), on the player of that name.
PlayerAddObserver(w, player, observer) ==
  [w EXCEPT !.made[player].observers = Append(@, observer)]

\* As playerCreated, without the server becoming the player's observer.
playerCreatedUnobserved(st, s, player) ==
  [world |-> st.world,
   servers |-> [st.servers EXCEPT ![s] = notifyPlayerCreated(@, player)]]

\* Gam3Server.playerCreated (network.py:35-43), run by the server of client
\* s.  st holds the world and the servers.
playerCreated(st, s, player) ==
  [world |-> PlayerAddObserver(st.world, player, s),
   servers |-> [st.servers EXCEPT ![s] = notifyPlayerCreated(@, player)]]

RECURSIVE createdFrom(_, _, _)
\* The loop of World.createPlayer (world.py:66-67) over the observers, from
\* the i-th on.
createdFrom(st, player, i) ==
  IF i > Len(st.world.observers) THEN st
  ELSE createdFrom(IF st.world.observers[i] = Observer
                   THEN ObserverCalled(st, "playerCreated", player)
                   ELSE playerCreated(st, st.world.observers[i], player),
                   player, i + 1)

\* Gam3Server.playerRemoved (network.py:46-55), run by the server of client
\* s.
playerRemoved(st, s, player) ==
  [st EXCEPT !.servers[s] =
     [identifierForPlayer(@, player) EXCEPT
        !.sent = Append(@, [command |-> "RemovePlayer", identifier |-> player]),
        !.players = @ \ {player}]]

RECURSIVE removedFrom(_, _, _)
\* The loop of World.removePlayer (world.py:78-79) over the observers, from
\* the i-th on.
removedFrom(st, player, i) ==
  IF i > Len(st.world.observers) THEN st
  ELSE removedFrom(IF st.world.observers[i] = Observer
                   THEN ObserverCalled(st, "playerRemoved", player)
                   ELSE playerRemoved(st, st.world.observers[i], player),
                   player, i + 1)

\* As removePlayer, with the observers told before the player leaves the
\* list.
removePlayerLate(st, player) ==
  [removedFrom(st, player, 1) EXCEPT !.world.players = ListRemove(@, player)]

\* World.removePlayer (world.py:72-79), of a player the world holds.
removePlayer(st, player) ==
  removedFrom([st EXCEPT !.world.players = ListRemove(@, player)], player, 1)

\* World.addObserver (world.py:82-87).
WorldAddObserver(st, observer) == [st EXCEPT !.world.observers = Append(@, observer)]

\* World.createPlayer (world.py:58-69): the observers hear of the player
\* before it joins the list.  The player returned is the last one made.
createPlayer(st) ==
  LET player == Len(st.world.made) + 1
      fresh == [st EXCEPT !.world.made = Append(@, PlayerInit)]
      told == createdFrom(fresh, player, 1)
  IN  [told EXCEPT !.world.players = Append(@, player)]

\* Gam3Server.introduce (network.py:68-86), on the server of client s.
introduce(st, s) ==
  LET made == createPlayer(st)
      player == Len(made.world.made)
      srv == identifierForPlayer(made.servers[s], player)
  IN  [made EXCEPT !.servers[s] = [srv EXCEPT !.delayed = @ + 1, !.player = player]]

\* Gam3Server.directionChanged (network.py:109-118), run by the server of
\* client s.  Of the command's arguments the identifier and the direction are
\* kept.
directionChanged(st, s, player) ==
  [st EXCEPT !.servers[s] =
     [identifierForPlayer(@, player) EXCEPT
        !.sent = Append(@, [command |-> "SetDirectionOf", identifier |-> player,
                            direction |-> st.world.made[player].direction])]]

RECURSIVE directionChangedFrom(_, _, _)
\* The loop of Player.setDirection (player.py:104-105) over the player's
\* observers, from the i-th on.
directionChangedFrom(st, player, i) ==
  IF i > Len(st.world.made[player].observers) THEN st
  ELSE directionChangedFrom(directionChanged(st, st.world.made[player].observers[i], player),
                            player, i + 1)

\* Player.setDirection (player.py:92-105).
setDirection(st, player, direction) ==
  directionChangedFrom([st EXCEPT !.world.made[player].direction = direction], player, 1)

\* Gam3Server.setMyDirection (network.py:121-135), on the server of client s.
setMyDirection(st, s, direction) == setDirection(st, st.servers[s].player, direction)

\* As sendExistingPlayersFrom, without the test for the client's own player.
sendEveryPlayerFrom(st, s, i) ==
  LET RECURSIVE every(_, _)
      every(t, j) ==
        IF j > Len(t.world.players) THEN t
        ELSE every(playerCreated(t, s, t.world.players[j]), j + 1)
  IN  every(st, i)

RECURSIVE sendExistingPlayersFrom(_, _, _)
\* The loop of Gam3Server.sendExistingPlayers (network.py:101-104) over the
\* world's players, from the i-th on.
sendExistingPlayersFrom(st, s, i) ==
  IF i > Len(st.world.players) THEN st
  ELSE LET player == st.world.players[i]
       IN  sendExistingPlayersFrom(
             IF player # st.servers[s].player
             THEN [world |-> PlayerAddObserver(st.world, player, s),
                   servers |-> [st.servers EXCEPT ![s] = notifyPlayerCreated(@, player)]]
             ELSE st,
             s, i + 1)

\* Gam3Server.sendExistingPlayers (network.py:96-105), with World.addObserver
\* (world.py:82-87) at its end.
sendExistingPlayers(st, s) ==
  [sendExistingPlayersFrom(st, s, 1) EXCEPT !.world.observers = Append(@, s)]

\* Gam3Server.sendExistingState (network.py:89-93).
sendExistingState(st, s) == sendExistingPlayers(st, s)

(* ---------------- Environment and its clocks (game/environment.py) ------ *)
\* Time is counted in ticks; one granule, 1.0 / granularity seconds, is
\* Granule ticks.
Granule == 2

\* The platform clock is advanced to at most MaxGranules granules.
MaxGranules == 6

\* None, as the value of Environment._call.
NoCall == -1

\* Environment.__init__ (environment.py:37-41) over a twisted Clock as the
\* platform: rightNow is the simulation time, the Environment being a Clock
\* itself, _call the time the latest delayed call is due at, and platform
\* the platform clock with the times its pending calls of _update are due
\* at, sorted.
EnvironmentInit ==
  [rightNow |-> 0, _call |-> NoCall, platform |-> [rightNow |-> 0, calls |-> <<>>]]

\* The sorted list of times with one more.
Sorted(calls, due) ==
  SelectSeq(calls, LAMBDA t : t <= due) \o <<due>> \o SelectSeq(calls, LAMBDA t : t > due)

\* Environment.start (environment.py:59-64): a call of _update is due one
\* granule from the platform's present.
start(e) ==
  LET due == e.platform.rightNow + Granule
  IN  [e EXCEPT !._call = due, !.platform.calls = Sorted(@, due)]

\* Environment._update (environment.py:51-56).
_update(e) == start([e EXCEPT !.rightNow = @ + Granule])

\* As stop, but the delayed call stays with the platform.
stopForgets(e) == [e EXCEPT !._call = NoCall]

\* Environment.stop (environment.py:67-71): the latest delayed call is
\* cancelled.
stop(e) == [e EXCEPT !.platform.calls = ListRemove(@, e._call), !._call = NoCall]

RECURSIVE runCalls(_)
\* The loop of Clock.advance of the platform clock: the calls that are due
\* run, earliest first, each popped before it runs.
runCalls(e) ==
  IF e.platform.calls # <<>> /\ Head(e.platform.calls) <= e.platform.rightNow
  THEN runCalls(_update([e EXCEPT !.platform.calls = Tail(@)]))
  ELSE e

\* Clock.advance of the platform clock by the amount.
advance(e, amount) == runCalls([e EXCEPT !.platform.rightNow = @ + amount])

RECURSIVE smoothly(_, _)
\* The platform clock advanced n times by one granule.
smoothly(e, n) == IF n = 0 THEN e ELSE smoothly(advance(e, Granule), n - 1)

(* ---------------- PlayerController (game/controller.py) ------------------ *)
\* At most MaxKeyEvents key events reach the controller.
MaxKeyEvents == 4

\* KEYS_TO_DIRECTIONS (controller.py:17-26), the keys by their pygame names.
KEYS_TO_DIRECTIONS ==
  [key \in {"K_LEFT", "K_RIGHT", "K_UP", "K_DOWN", "K_w", "K_a", "K_s", "K_d"} |->
     CASE key \in {"K_LEFT", "K_a"} -> DirLEFT
       [] key \in {"K_RIGHT", "K_d"} -> DirRIGHT
       [] key \in {"K_UP", "K_w"} -> FORWARD
       [] key \in {"K_DOWN", "K_s"} -> BACKWARD]

\* The keys of the events: the direction keys and one that is none.
Keys == (DOMAIN KEYS_TO_DIRECTIONS) \cup {"K_q"}

\* The sum of two directions, as complex numbers.
Plus(a, b) == <<a[1] + b[1], a[2] + b[2]>>

\* PlayerController.__init__ (controller.py:42-44) with a player that stands
\* still.  sets counts the calls of Player.setDirection; held lists the keys
\* that went down and have not gone up since, by their latest press, and
\* event is the latest key event, of nevents so far.
PlayerControllerInit ==
  [downDirections |-> <<>>, direction |-> NoDirection, sets |-> 0,
   held |-> <<>>, event |-> <<>>, nevents |-> 0]

RECURSIVE calculateFrom(_, _, _, _)
\* The loop of PlayerController.calculateDirection (controller.py:94-99) from
\* the i-th key on.
calculateFrom(pressedKeys, i, forwardDir, sidewaysDir) ==
  IF i > Len(pressedKeys) THEN Plus(forwardDir, sidewaysDir)
  ELSE LET direction == KEYS_TO_DIRECTIONS[pressedKeys[i]]
       IN  calculateFrom(pressedKeys, i + 1,
                         IF direction \in {FORWARD, BACKWARD} THEN direction ELSE forwardDir,
                         IF direction \in {DirLEFT, DirRIGHT} THEN direction ELSE sidewaysDir)

\* PlayerController.calculateDirection (controller.py:85-99): with no key
\* pressed the method returns nothing, None.
calculateDirection(pressedKeys) ==
  IF pressedKeys # <<>> THEN calculateFrom(pressedKeys, 1, FORWARD_ZERO, SIDEWAYS_ZERO)
  ELSE NoDirection

\* Player.setDirection (player.py:92-105) on the controller's player, which
\* has no observers.
PlayerSetDirection(c, direction) == [c EXCEPT !.direction = direction, !.sets = @ + 1]

\* PlayerController.keyDown (controller.py:47-57).
keyDown(c, key) ==
  IF key \in DOMAIN KEYS_TO_DIRECTIONS
  THEN LET down == Append(c.downDirections, key)
       IN  PlayerSetDirection([c EXCEPT !.downDirections = down], calculateDirection(down))
  ELSE c

\* PlayerController.keyUp (controller.py:59-74).
keyUp(c, key) ==
  IF key \in DOMAIN KEYS_TO_DIRECTIONS
  THEN IF ~Holds(c.downDirections, key) THEN c
       ELSE LET down == ListRemove(c.downDirections, key)
            IN  PlayerSetDirection([c EXCEPT !.downDirections = down], calculateDirection(down))
  ELSE c

(* ---------------- Window._checkTerrain (game/view.py:365-397) ----------- *)
\* The player stands at whole coordinates from -1 to MaxPosition on each axis.
MaxPosition == 1

\* Window.CHUNK_GRANULARITY, set small as the tests of the check set it
\* (test_view.py:315, 338): the dimensions of a chunk of terrain.
CHUNK_GRANULARITY == <<2, 1, 1>>

\* Window.CHUNK_OFFSET, set small as the tests set it (test_view.py:316): the
\* distance in chunks to look around the player.
CHUNK_OFFSET == <<1, 0, 1>>

\* A window whose environment has a network (view.py:309-325); calls is what
\* the network's callRemote was given by the latest check, in order, and
\* position where the player of that check stood (none or one), after
\* checked calls of Terrain.set; answered is the origin of the request the
\* server answered latest (none or one).
WindowInit == [calls |-> <<>>, position |-> <<>>, checked |-> 0, answered |-> <<>>]

\* quantize (view.py:64-73).
quantize(quantization, value) == value - (value % quantization)

\* range(first, end, step) of a positive step, as a list.
RangeList(first, end, step) ==
  [i \in 1..(IF end > first THEN (end - first + step - 1) \div step ELSE 0) |->
     first + (i - 1) * step]

\* As Wanted, with an origin beyond the array taken for known.
WantedInside(v, px, py, pz) ==
  /\ px < v.shape[1] /\ py < v.shape[2] /\ pz < v.shape[3]
  /\ v.cells[<<px, py, pz>>] = UNKNOWN

\* The test of Window._checkTerrain on an origin without negative
\* coordinates (view.py:389-393): it lies beyond the terrain array or holds
\* Unknown.
Wanted(v, px, py, pz) ==
  \/ px >= v.shape[1]
  \/ py >= v.shape[2]
  \/ pz >= v.shape[3]
  \/ v.cells[<<px, py, pz>>] = UNKNOWN

RECURSIVE _checkTerrainFrom(_, _, _, _, _, _)
\* The loops of Window._checkTerrain (view.py:383-395) over the origins xs,
\* ys and zs, from the i-th origin (from 0) on, x outermost and z innermost.
_checkTerrainFrom(w, v, xs, ys, zs, i) ==
  IF i >= Len(xs) * Len(ys) * Len(zs) THEN w
  ELSE LET px == xs[(i \div (Len(ys) * Len(zs))) + 1]
           py == ys[((i \div Len(zs)) % Len(ys)) + 1]
           pz == zs[(i % Len(zs)) + 1]
       IN  _checkTerrainFrom(
             IF px < 0 \/ py < 0 \/ pz < 0 THEN w
             ELSE IF Wanted(v, px, py, pz)
                  THEN [w EXCEPT !.calls =
                          Append(@, [command |-> "GetTerrain", x |-> px, y |-> py, z |-> pz])]
                  ELSE w,
             v, xs, ys, zs, i + 1)

\* Window._checkTerrain (view.py:365-395) for a player at the position s, over
\* the terrain's array v.
_checkTerrain(w, v, s) ==
  LET g == CHUNK_GRANULARITY
      x == quantize(g[1], s[1])
      y == quantize(g[2], s[2])
      z == quantize(g[3], s[3])
      dx == CHUNK_OFFSET[1] * g[1]
      dy == CHUNK_OFFSET[2] * g[2]
      dz == CHUNK_OFFSET[3] * g[3]
  IN  _checkTerrainFrom(w, v, RangeList(x - dx, x + dx + 1, g[1]),
                        RangeList(y - dy, y + dy + 1, g[2]),
                        RangeList(z - dz, z + dz + 1, g[3]), 0)

(* ---------------- NetworkController and players (game/network.py) ------- *)
\* At most MaxObjects Player objects are made on the client.
MaxObjects == 3

\* At most MaxCommands direction changes reach the client's players.
MaxCommands == 2

\* The identifiers the server names players by.
Identifiers == {1, 2}

\* The NetworkController, as it is named in Player.observers.
Network == "network"

\* NetworkController.__init__ (network.py:186-188) before the introduction.
\* objects holds every Player object made on the client, named by its place;
\* initialPlayer is Environment.initialPlayer and sent what callRemote was
\* given, in order.  turns counts the calls of Player.setDirection made and
\* turned names the object of the latest.
NetworkControllerInit ==
  [modelObjects |-> << >>, objects |-> <<>>, initialPlayer |-> NoPlayer, sent |-> <<>>,
   turns |-> 0, turned |-> NoPlayer]

\* Environment.createPlayer (environment.py:82-98) of an environment nobody
\* observes: the new Player is the last object.
EnvironmentCreatePlayer(n) == [n EXCEPT !.objects = Append(@, PlayerInit)]

\* The mapping with the identifier bound to the object.
Bound(modelObjects, identifier, object) ==
  [i \in (DOMAIN modelObjects) \cup {identifier} |->
     IF i = identifier THEN object ELSE modelObjects[i]]

\* NetworkController.addModelObject (network.py:191-196).
addModelObject(n, identifier, modelObject) ==
  [n EXCEPT !.modelObjects = Bound(@, identifier, modelObject),
            !.objects[modelObject].observers = Append(@, Network)]

\* NetworkController.createInitialPlayer (network.py:222-230).
createInitialPlayer(n, identifier) ==
  LET made == EnvironmentCreatePlayer(n)
      player == Len(made.objects)
  IN  addModelObject([made EXCEPT !.initialPlayer = player], identifier, player)

\* As newPlayer, with the new player registered by addModelObject.
newPlayerObserved(n, identifier) ==
  LET made == EnvironmentCreatePlayer(n)
  IN  addModelObject(made, identifier, Len(made.objects))

\* NetworkController.newPlayer (network.py:297-310).
newPlayer(n, identifier) ==
  LET made == EnvironmentCreatePlayer(n)
  IN  [made EXCEPT !.modelObjects = Bound(@, identifier, Len(made.objects))]

\* NetworkController.directionChanged (network.py:199-209).  Of the command's
\* arguments the direction is kept.
NetworkDirectionChanged(n, modelObject) ==
  [n EXCEPT !.sent = Append(@, [command |-> "SetMyDirection",
                                direction |-> n.objects[modelObject].direction])]

RECURSIVE objectChangedFrom(_, _, _)
\* The loop of Player.setDirection (player.py:104-105) over the observers of
\* the object, from the i-th on.
objectChangedFrom(n, modelObject, i) ==
  IF i > Len(n.objects[modelObject].observers) THEN n
  ELSE objectChangedFrom(NetworkDirectionChanged(n, modelObject), modelObject, i + 1)

\* Player.setDirection (player.py:92-105) on an object of the client.
ObjectSetDirection(n, modelObject, direction) ==
  objectChangedFrom([n EXCEPT !.objects[modelObject].direction = direction], modelObject, 1)

\* NetworkController.setDirectionOf (network.py:280-294), for an identifier
\* the controller knows.
setDirectionOf(n, identifier, direction) ==
  ObjectSetDirection(n, n.modelObjects[identifier], direction)

(* ---------------- the program as a state machine ------------------------ *)
VARIABLES
  voxels,       \* Terrain.voxels
  observers,    \* Terrain._observers, in registration order
  surface,      \* the SurfaceMesh objects built over the terrain (none or one)
  events,       \* the observer calls made by the latest Terrain.set, in order
  raised,       \* whether the latest Terrain.set ended by raising
  last,         \* the arguments of the latest Terrain.set (none or one)
  repeat,       \* whether the latest Terrain.set had the arguments of the one before
  nsets,        \* the number of Terrain.set calls made
  lastWritten,  \* per coordinate, the value of the latest write that covered it
  calls,        \* the number of calls made on the mesh's own methods
  snapshot,     \* what the latest Terrain.dict call returned (none or one)
  terrain,      \* Environment.terrain, the array NetworkController.setTerrain works on
  world,        \* the gam3 World and the Player objects it has made
  servers,      \* per client connection, its Gam3Server
  environment,  \* a client's Environment and the platform clock that drives it
  controller,   \* a client's PlayerController and the direction of its player
  window,       \* a client's Window: its latest terrain check and what it requested
  network       \* a client's NetworkController and the Player objects of its environment

vars == <<voxels, observers, surface, events, raised, last, repeat, nsets, lastWritten, calls,
          snapshot, terrain, world, servers, environment, controller, window, network>>

\* The observers that only record what they are called with.
Recorders == {"rec1", "rec2"}

\* No write reaches past MaxDim on any axis.
MaxDim == MaxReach + 1

AllCoords == Box(<<MaxDim, MaxDim, MaxDim>>)

\* The cells a write may cover.
Cells == {c \in AllCoords : c[1] + c[2] + c[3] <= MaxReach}

Volume(shape) == shape[1] * shape[2] * shape[3]

\* The cells of the grid that a write of the given shape at origin covers.
Covered(origin, shape) ==
  {c \in AllCoords : \A a \in 1..3 : c[a] >= origin[a] /\ c[a] < origin[a] + shape[a]}

\* The shapes a write at the given origin may have: any shape that stays
\* inside the bounds, and shapes without cells (an axis of extent 0 beside
\* axes of extent 0 or 1).
ShapesAt(origin) ==
  {s \in (0..MaxDim) \X (0..MaxDim) \X (0..MaxDim) :
     /\ \A a \in 1..3 : origin[a] + s[a] <= MaxDim
     /\ Volume(s) <= MaxVolume
     /\ (Volume(s) = 0 => \A a \in 1..3 : s[a] <= 1)
     /\ Covered(origin, s) \subseteq Cells}

\* The shapes with cells in them, and the shape (0, 0, 0).
SolidShapesAt(origin) ==
  {s \in ShapesAt(origin) : Volume(s) > 0 \/ s = <<0, 0, 0>>}

\* The arrays of the given shape.
Arrays(shape) == {[shape |-> shape, cells |-> f] : f \in [Box(shape) -> CellValues]}

\* The objects after the mesh's callback has left the mesh as m.
AfterMesh(w, m) ==
  [w EXCEPT !.surface = <<[m EXCEPT !.raised = FALSE]>>, !.raised = m.raised]

\* As CallObserver, but the mesh's callback returns at once, its work put
\* off until after the set call.
CallObserverLater(w, obs, position, shape) ==
  [w EXCEPT !.events = Append(@, [obs |-> obs, position |-> position,
                                  shape |-> shape, seen |-> w.voxels])]

\* One observer call (terrain.py:95-96): a recorder notes its arguments and
\* the array it can read; the mesh's callback is SurfaceMesh.changed.
CallObserver(w, obs, position, shape) ==
  LET w1 == [w EXCEPT !.events = Append(@, [obs |-> obs, position |-> position,
                                            shape |-> shape, seen |-> w.voxels])]
  IN  IF obs = "mesh"
      THEN AfterMesh(w1, changed(w.surface[1], w.voxels, position, shape))
      ELSE w1

RECURSIVE _notifyFrom(_, _, _, _)
_notifyFrom(w, position, shape, i) ==
  IF i > Len(w.observers) \/ w.raised THEN w
  ELSE _notifyFrom(CallObserver(w, w.observers[i], position, shape), position, shape, i + 1)

\* As _notify, but a change without cells is not announced.
_notifyCells(w, position, shape) ==
  IF shape[1] * shape[2] * shape[3] = 0 THEN w ELSE _notifyFrom(w, position, shape, 1)

\* Terrain._notify (terrain.py:91-96).
_notify(w, position, shape) == _notifyFrom(w, position, shape, 1)

\* As set, but the observers are called before the array is written.
setNotifyFirst(w, x, y, z, data) ==
  [_notifyFrom([w EXCEPT !.events = <<>>, !.raised = FALSE], <<x, y, z>>, data.shape, 1)
     EXCEPT !.voxels = Written(w.voxels, x, y, z, data)]

\* Terrain.set (terrain.py:68-88) on the objects w.
set(w, x, y, z, data) ==
  _notify([w EXCEPT !.voxels = Written(w.voxels, x, y, z, data),
                    !.events = <<>>, !.raised = FALSE],
          <<x, y, z>>, data.shape)

Objects ==
  [voxels |-> voxels, observers |-> observers, surface |-> surface,
   events |-> events, raised |-> raised]

\* The objects w are what the call leaves behind.
Becomes(w) ==
  /\ voxels' = w.voxels
  /\ surface' = w.surface
  /\ events' = w.events
  /\ raised' = w.raised

\* A call of Terrain.set.
Set(origin, data) ==
  /\ nsets < MaxSets
  /\ Becomes(set(Objects, origin[1], origin[2], origin[3], data))
  /\ last' = <<[origin |-> origin, data |-> data]>>
  /\ repeat' = (last = <<[origin |-> origin, data |-> data]>>)
  /\ nsets' = nsets + 1
  /\ lastWritten' =
       [c \in AllCoords |->
          IF c \in Covered(origin, data.shape)
          THEN data.cells[<<c[1] - origin[1], c[2] - origin[2], c[3] - origin[3]>>]
          ELSE lastWritten[c]]
  /\ UNCHANGED <<observers, calls, snapshot, terrain, world, servers,
                 environment, controller, window, network>>

\* Terrain.addObserver (terrain.py:99-106) with a recorder.
AddObserver(obs) ==
  /\ Len(observers) < MaxObservers
  /\ observers' = Append(observers, obs)
  /\ UNCHANGED <<voxels, surface, events, raised, last, repeat, nsets, lastWritten, calls,
                 snapshot, terrain, world, servers,
                 environment, controller, window, network>>

SetSome == \E origin \in Cells : \E shape \in SolidShapesAt(origin) :
             \E data \in Arrays(shape) : Set(origin, data)

SetAny == \E origin \in Cells : \E shape \in ShapesAt(origin) :
            \E data \in Arrays(shape) : Set(origin, data)

AddSome == \E obs \in Recorders : AddObserver(obs)

InitCommon ==
  /\ voxels = InitVoxels
  /\ terrain = InitVoxels
  /\ events = <<>>
  /\ raised = FALSE
  /\ last = <<>>
  /\ repeat = FALSE
  /\ nsets = 0
  /\ lastWritten = [c \in AllCoords |-> UNKNOWN]
  /\ calls = 0
  /\ snapshot = <<>>
  /\ world = WorldInit
  /\ servers = [s \in Clients |-> Gam3ServerInit]
  /\ environment = EnvironmentInit
  /\ controller = PlayerControllerInit
  /\ window = WindowInit
  /\ network = NetworkControllerInit

\* A terrain with a SurfaceMesh built over it and subscribed, as the mesh
\* tests and the terrain view set it up.
Init ==
  /\ InitCommon
  /\ surface = <<SurfaceMeshInit(InitVoxels, SlabRows)>>
  /\ observers = <<"mesh">>

Next == SetSome

Spec == Init /\ [][Next]_vars

\* A bare terrain whose observers are recorders.
InitObs ==
  /\ InitCommon
  /\ surface = <<>>
  /\ observers = <<>>

NextObs == SetAny \/ AddSome

SpecObs == InitObs /\ [][NextObs]_vars

(* ---------------- a terrain whose contents are read back ----------------- *)
\* The cell values written to a terrain that is read back: two materials.
DictValues == {EMPTY, GRASS, MOUNTAIN, UNKNOWN}

\* A call of Terrain.set with data over DictValues.
SetMaterials ==
  \E origin \in Cells : \E shape \in SolidShapesAt(origin) :
    \E f \in [Box(shape) -> DictValues] : Set(origin, [shape |-> shape, cells |-> f])

\* A call of Terrain.dict.
Dict ==
  /\ snapshot' = <<dict(voxels)>>
  /\ UNCHANGED <<voxels, observers, surface, events, raised, last, repeat, nsets, lastWritten,
                 calls, terrain, world, servers,
                 environment, controller, window, network>>

NextDict == SetMaterials \/ Dict

SpecDict == InitObs /\ [][NextDict]_vars

(* ---------------- NetworkController.setTerrain (network.py:326-352) ------ *)
Min(a, b) == IF a <= b THEN a ELSE b

\* Can an array of shape src be assigned to a slice of shape dst?  On every
\* axis the extents are equal, or the source has extent 1 and is repeated.
Broadcasts(dst, src) == \A a \in 1..3 : src[a] = dst[a] \/ src[a] = 1

\* numpy.array([[[]]], 'b', ndmin=3) resized to shp: every cell 0
\* (network.py:345-346).
Resized(shp) == [shape |-> shp, cells |-> [c \in Box(shp) |-> 0]]

\* terrain[:existing[0], :existing[1], :existing[2]] = old (network.py:347),
\* when the assignment is possible.
CopyInto(t, old) ==
  [t EXCEPT !.cells = [c \in Box(t.shape) |-> IF c \in Box(old.shape) THEN old.cells[c]
                                                ELSE t.cells[c]]]

\* terrain[x:, y:, z:] = voxels (network.py:350): the slice runs to the end
\* of the array on every axis; data of extent 1 on an axis is repeated over
\* it.  The result is the array, and whether the assignment raised.
AssignFrom(t, x, y, z, data) ==
  LET o == <<x, y, z>>
      dst == [a \in 1..3 |-> IF t.shape[a] > o[a] THEN t.shape[a] - o[a] ELSE 0]
  IN  IF ~Broadcasts(dst, data.shape) THEN [terrain |-> t, raised |-> TRUE]
      ELSE [terrain |->
              [t EXCEPT !.cells =
                 [c \in Box(t.shape) |->
                    IF \A a \in 1..3 : c[a] >= o[a]
                    THEN data.cells[[a \in 1..3 |->
                                       IF data.shape[a] = 1 THEN 0 ELSE c[a] - o[a]]]
                    ELSE t.cells[c]]],
            raised |-> FALSE]

\* NetworkController.setTerrain (network.py:326-352) on the array t.
setTerrain(t, x, y, z, data) ==
  LET existing == t.shape
      new == <<data.shape[1] + x, data.shape[2] + y, data.shape[3] + z>>
      kept == [a \in 1..3 |-> Min(existing[a], new[a])]
  IN  IF new[1] > existing[1] \/ new[2] > existing[2] \/ new[3] > existing[3]
      THEN IF ~Broadcasts(kept, existing) THEN [terrain |-> t, raised |-> TRUE]
           ELSE AssignFrom(CopyInto(Resized(new), t), x, y, z, data)
      ELSE AssignFrom(t, x, y, z, data)

\* The arrays an environment may hold when a command arrives.
TerrainArrays ==
  UNION {Arrays(shape) : shape \in {s \in SolidShapesAt(<<0, 0, 0>>) : Volume(s) > 0}}

\* The responder of a SetTerrain command.
SetTerrain(origin, data) ==
  /\ terrain' = setTerrain(terrain, origin[1], origin[2], origin[3], data).terrain
  /\ raised' = setTerrain(terrain, origin[1], origin[2], origin[3], data).raised
  /\ last' = <<[origin |-> origin, data |-> data]>>
  /\ UNCHANGED <<voxels, observers, surface, events, repeat, nsets, lastWritten, calls,
                 snapshot, world, servers,
                 environment, controller, window, network>>

NextNet == \E origin \in Cells : \E shape \in {s \in SolidShapesAt(origin) : Volume(s) > 0} :
             \E data \in Arrays(shape) : SetTerrain(origin, data)

InitNet ==
  /\ voxels = InitVoxels
  /\ terrain \in TerrainArrays
  /\ observers = <<>>
  /\ surface = <<>>
  /\ events = <<>>
  /\ raised = FALSE
  /\ last = <<>>
  /\ repeat = FALSE
  /\ nsets = 0
  /\ lastWritten = [c \in AllCoords |-> UNKNOWN]
  /\ calls = 0
  /\ snapshot = <<>>
  /\ world = WorldInit
  /\ servers = [s \in Clients |-> Gam3ServerInit]
  /\ environment = EnvironmentInit
  /\ controller = PlayerControllerInit
  /\ window = WindowInit
  /\ network = NetworkControllerInit

\* A client's environment whose terrain model takes SetTerrain commands.
SpecNet == InitNet /\ [][NextNet]_vars

(* ---------------- a surface factory of small capacity -------------------- *)
\* The rows of the arrays a small surface factory hands out: one voxel's six
\* faces fit, a seventh face does not.
SmallRows == 40

InitSmall ==
  /\ InitCommon
  /\ surface = <<SurfaceMeshInit(InitVoxels, SmallRows)>>
  /\ observers = <<"mesh">>

SpecSmall == InitSmall /\ [][Next]_vars

(* ---------------- a mesh over a terrain of two materials ---------------- *)
\* A terrain with a subscribed mesh, written with both materials.
SpecMaterials == Init /\ [][SetMaterials]_vars

\* A call of Terrain.set that writes Unknown over no cell that holds a
\* material.
SetKnown(origin, data) ==
  /\ \A c \in Covered(origin, data.shape) :
       (c \in Box(voxels.shape) /\ voxels.cells[c] \notin {EMPTY, UNKNOWN})
         => data.cells[<<c[1] - origin[1], c[2] - origin[2], c[3] - origin[3]>>] # UNKNOWN
  /\ Set(origin, data)

SetKnownSome ==
  \E origin \in Cells : \E shape \in SolidShapesAt(origin) :
    \E f \in [Box(shape) -> DictValues] : SetKnown(origin, [shape |-> shape, cells |-> f])

\* A terrain with a subscribed mesh on which no material is ever overwritten
\* with Unknown.
SpecKnown == Init /\ [][SetKnownSome]_vars

(* ---------------- the mesh driven through its own methods --------------- *)
\* At most MaxCalls calls are made on the mesh's own methods.
MaxCalls == 3

\* The first row that test_compactFailure puts in place of a face's own
\* (texture coordinates in eighths).
MangledRow == <<10, 11, 12, 104, 112>>

\* The keys the direct calls use.
DirectKeys == {<<c[1], c[2], c[3], f>> : <<c, f>> \in Cells \X (0..5)}

\* The vertices of a grass face, as they are or with the first row replaced.
DirectVertices(key, mangled) ==
  LET face == _makeFace(key[4], GRASS, key[1], key[2], key[3])
  IN  IF mangled THEN [face EXCEPT ![1] = MangledRow] ELSE face

\* The mesh's method has left the mesh as m.
MeshBecomes(m) ==
  /\ surface' = <<[m EXCEPT !.raised = FALSE]>>
  /\ raised' = m.raised
  /\ calls' = calls + 1
  /\ UNCHANGED <<voxels, observers, events, last, repeat, nsets, lastWritten, snapshot,
                 terrain, world, servers,
                 environment, controller, window, network>>

\* surface._append(key, vertices), as the compaction tests call it.
DirectAppend(key, mangled) ==
  /\ calls < MaxCalls
  /\ ~Tracked(surface[1], key)
  /\ MeshBecomes(_append(surface[1], key, DirectVertices(key, mangled)))

\* surface._compact(x, y, z, face, start, length) for a tracked key, as the
\* compaction tests call it: the key stays in _voxelToSurface.
DirectCompact(key) ==
  /\ calls < MaxCalls
  /\ Tracked(surface[1], key)
  /\ MeshBecomes(_compact(surface[1], surface[1].v2s[key][1], surface[1].v2s[key][2]))

\* The key popped and its range compacted, as _removeVoxel and _addVoxel
\* remove a face (terrain.py:268-269, 339-349).
DirectRemove(key) ==
  /\ calls < MaxCalls
  /\ Tracked(surface[1], key)
  /\ MeshBecomes(_compact(Pop(surface[1], key), surface[1].v2s[key][1],
                          surface[1].v2s[key][2]))

AppendSome == \E key \in DirectKeys : \E mangled \in BOOLEAN : DirectAppend(key, mangled)

CompactSome == \E key \in DirectKeys : DirectCompact(key)

RemoveSome == \E key \in DirectKeys : DirectRemove(key)

NextMesh == AppendSome \/ CompactSome \/ RemoveSome

\* The mesh of the mesh tests, driven as the compaction tests drive it.
SpecMesh == Init /\ [][NextMesh]_vars

\* A terrain of one grass voxel, set before there is a mesh.
GrassVoxels == [shape |-> <<1, 1, 1>>, cells |-> [c \in Box(<<1, 1, 1>>) |-> GRASS]]

\* A SurfaceMesh built over a terrain that holds a voxel already, as
\* test_existingTerrain builds it (test_terrain.py:488-497): the six faces of
\* the voxel are in the mesh.
InitFaces ==
  /\ voxels = GrassVoxels
  /\ surface = <<SurfaceMeshInit(GrassVoxels, SlabRows)>>
  /\ observers = <<>>
  /\ terrain = InitVoxels
  /\ events = <<>>
  /\ raised = FALSE
  /\ last = <<[origin |-> <<0, 0, 0>>, data |-> GrassVoxels]>>
  /\ repeat = FALSE
  /\ nsets = 1
  /\ lastWritten = [c \in AllCoords |-> IF c = <<0, 0, 0>> THEN GRASS ELSE UNKNOWN]
  /\ calls = 0
  /\ snapshot = <<>>
  /\ world = WorldInit
  /\ servers = [s \in Clients |-> Gam3ServerInit]
  /\ environment = EnvironmentInit
  /\ controller = PlayerControllerInit
  /\ window = WindowInit
  /\ network = NetworkControllerInit

\* The mesh of a voxel, its faces removed and others appended directly.
SpecFaces == InitFaces /\ [][NextMesh]_vars

(* ---------------- a world with clients being introduced ----------------- *)
\* The world and the servers together, as the operators take them.
Here == [world |-> world, servers |-> servers]

\* The world and the servers have become st.
ServerBecomes(st) ==
  /\ world' = st.world
  /\ servers' = st.servers
  /\ UNCHANGED <<voxels, observers, surface, events, raised, last, repeat, nsets, lastWritten,
                 calls, snapshot, terrain, environment, controller, window, network>>

\* A call of World.createPlayer from outside the servers.
CreatePlayer ==
  /\ Len(world.made) < MaxPlayers
  /\ ServerBecomes(createPlayer(Here))

\* The responder of the Introduce command of client s, which the client
\* sends once.
Introduce(s) ==
  /\ Len(world.made) < MaxPlayers
  /\ servers[s].player = NoPlayer
  /\ ServerBecomes(introduce(Here, s))

\* The clock runs a waiting call of sendExistingState of client s.
SendExistingState(s) ==
  /\ servers[s].delayed > 0
  /\ LET st == sendExistingState(Here, s)
     IN  ServerBecomes([st EXCEPT !.servers[s] =
                          [@ EXCEPT !.delayed = @ - 1,
                                    !.ran = TRUE,
                                    !.existing = {world.players[i] : i \in 1..Len(world.players)},
                                    !.mark = Len(world.made)]])

\* The directions a player is given here.
TurnDirections == {DirLEFT, DirRIGHT}

\* The world and the servers after a call of Player.setDirection on the
\* player, which has left them as st.
Turned(st, player) ==
  ServerBecomes([st EXCEPT !.world.turns = @ + 1, !.world.turned = player])

\* A call of Player.setDirection on a player of the world from outside the
\* servers.
SetDirection(player, direction) ==
  /\ world.turns < MaxTurns
  /\ Turned(setDirection(Here, player, direction), player)

\* The responder of the SetMyDirection command of client s, which the client
\* sends once introduced.
SetMyDirection(s, direction) ==
  /\ world.turns < MaxTurns
  /\ servers[s].player # NoPlayer
  /\ Turned(setMyDirection(Here, s, direction), servers[s].player)

IntroduceSome == \E s \in Clients : Introduce(s)

SendSome == \E s \in Clients : SendExistingState(s)

TurnSome == \E player \in 1..Len(world.made) : \E direction \in TurnDirections :
              SetDirection(player, direction)

TurnMine == \E s \in Clients : \E direction \in TurnDirections : SetMyDirection(s, direction)

NextServer == CreatePlayer \/ IntroduceSome \/ SendSome \/ TurnSome \/ TurnMine

SpecServer == InitObs /\ [][NextServer]_vars

(* ---------------- a world whose players leave --------------------------- *)
\* A call of World.removePlayer.  For a player the world does not hold,
\* list.remove raises ValueError with nothing changed.
RemovePlayer(player) ==
  /\ Holds(world.players, player)
  /\ ServerBecomes(removePlayer(Here, player))

\* The recording observer is added to the world, once.
Watch ==
  /\ ~Holds(world.observers, Observer)
  /\ ServerBecomes(WorldAddObserver(Here, Observer))

LeaveSome == \E player \in 1..Len(world.made) : RemovePlayer(player)

NextWorld == CreatePlayer \/ IntroduceSome \/ SendSome \/ LeaveSome \/ Watch

SpecWorld == InitObs /\ [][NextWorld]_vars

(* ---------------- servers whose connections are lost -------------------- *)
\* Gam3Server.connectionLost (network.py:171-175), on the server of client
\* s.  For a server without a player, or one whose player the world no
\* longer holds, list.remove raises ValueError with nothing changed.
connectionLost(st, s) ==
  IF Holds(st.world.players, st.servers[s].player)
  THEN removePlayer(st, st.servers[s].player)
  ELSE st

\* The connection of client s is lost, once.
ConnectionLost(s) ==
  /\ ~servers[s].lost
  /\ ServerBecomes([connectionLost(Here, s) EXCEPT
                      !.servers[s].lost = TRUE,
                      !.servers[s].lostAt = Len(servers[s].sent)])

LoseSome == \E s \in Clients : ConnectionLost(s)

\* The commands of a client reach its server while the connection stands.
IntroduceLive == \E s \in Clients : ~servers[s].lost /\ Introduce(s)

TurnLive == \E s \in Clients : \E direction \in TurnDirections :
              ~servers[s].lost /\ SetMyDirection(s, direction)

NextLost == IntroduceLive \/ SendSome \/ TurnLive \/ LoseSome

SpecLost == InitObs /\ [][NextLost]_vars

(* ---------------- an environment driven by the platform clock ---------- *)
\* The environment has become e.
EnvironmentBecomes(e) ==
  /\ environment' = e
  /\ UNCHANGED <<voxels, observers, surface, events, raised, last, repeat, nsets, lastWritten,
                 calls, snapshot, terrain, world, servers, controller, window, network>>

\* Environment.start, of an environment that is not running.
Start ==
  /\ environment.platform.calls = <<>>
  /\ EnvironmentBecomes(start(environment))

\* Environment.stop, of an environment that is running.
Stop ==
  /\ environment.platform.calls # <<>>
  /\ EnvironmentBecomes(stop(environment))

\* The amounts the platform clock advances by in one step: from a part of a
\* granule to two granules.
Jumps == 1..(2 * Granule)

\* The platform clock advances.
Advance(amount) ==
  /\ environment.platform.rightNow + amount <= MaxGranules * Granule
  /\ EnvironmentBecomes(advance(environment, amount))

AdvanceSome == \E amount \in Jumps : Advance(amount)

NextTime == Start \/ Stop \/ AdvanceSome

SpecTime == InitObs /\ [][NextTime]_vars

(* ---------------- a controller taking key events ------------------------ *)
\* The controller has become c.
ControllerBecomes(c) ==
  /\ controller' = c
  /\ UNCHANGED <<voxels, observers, surface, events, raised, last, repeat, nsets, lastWritten,
                 calls, snapshot, terrain, world, servers, environment, window, network>>

\* A key goes down.
KeyDown(key) ==
  /\ controller.nevents < MaxKeyEvents
  /\ ControllerBecomes(
       [keyDown(controller, key) EXCEPT
          !.held = IF key \in DOMAIN KEYS_TO_DIRECTIONS
                   THEN Append(SelectSeq(@, LAMBDA k : k # key), key) ELSE @,
          !.event = <<[type |-> "KEYDOWN", key |-> key]>>,
          !.nevents = @ + 1])

\* A key goes up.
KeyUp(key) ==
  /\ controller.nevents < MaxKeyEvents
  /\ ControllerBecomes(
       [keyUp(controller, key) EXCEPT
          !.held = SelectSeq(@, LAMBDA k : k # key),
          !.event = <<[type |-> "KEYUP", key |-> key]>>,
          !.nevents = @ + 1])

KeyDownSome == \E key \in Keys : KeyDown(key)

KeyUpSome == \E key \in Keys : KeyUp(key)

NextKeys == KeyDownSome \/ KeyUpSome

SpecKeys == InitObs /\ [][NextKeys]_vars

(* ---------------- a window checking its terrain ------------------------- *)
\* The positions of the player.
Positions == ((-1)..MaxPosition) \X (0..1) \X ((-1)..MaxPosition)

\* A terrain check for a player at the position; the calls of the check
\* before are let go, as the tests look at one check.
CheckTerrain(position) ==
  /\ window' = [_checkTerrain([window EXCEPT !.calls = <<>>], voxels, position)
                  EXCEPT !.position = <<position>>, !.checked = nsets]
  /\ UNCHANGED <<voxels, observers, surface, events, raised, last, repeat, nsets, lastWritten,
                 calls, snapshot, terrain, world, servers, environment, controller,
                 network>>

CheckSome == \E position \in Positions : CheckTerrain(position)

\* The terrain the window looks at takes at most WindowSets writes.
WindowSets == 2

\* A call of Terrain.set on the terrain the window looks at.
SetUnderWindow == nsets < WindowSets /\ SetSome

NextWindow == SetUnderWindow \/ CheckSome

SpecWindow == InitObs /\ [][NextWindow]_vars

(* ---------------- terrain requests answered by the server --------------- *)
\* The extents of the slice Gam3Server.getTerrain sends (gam3/network.py:146).
SLICE == <<64, 8, 64>>

\* v[x:x+64, y:y+8, z:z+64] of a server array v (gam3/network.py:146): on
\* each axis the slice ends where the array ends, and it is without cells
\* when it starts at or beyond the end.
Sliced(v, x, y, z) ==
  LET o == <<x, y, z>>
      shape == [a \in 1..3 |-> Max(0, Min(v.shape[a], o[a] + SLICE[a]) - o[a])]
  IN  [shape |-> shape,
       cells |-> [c \in Box(shape) |-> v.cells[<<c[1] + x, c[2] + y, c[3] + z>>]]]

\* Gam3Server.getTerrain (gam3/network.py:139-150) over the array v of the
\* world's terrain: the commands it sends to its client.
getTerrain(v, x, y, z) ==
  IF x < 0 \/ y < 0 \/ z < 0 THEN <<>>
  ELSE <<[command |-> "SetTerrain", x |-> x, y |-> y, z |-> z, voxels |-> Sliced(v, x, y, z)]>>

\* The arrays a server's terrain may hold: one voxel, or a row of three.
ServerTerrains == Arrays(<<1, 1, 1>>) \cup Arrays(<<3, 1, 1>>)

\* The server answers at most SettleAnswers requests.
SettleAnswers == 2

\* A client with a bare terrain and a window, and the world of its server
\* with a terrain of its own.
InitSettle ==
  /\ voxels = InitVoxels
  /\ terrain = InitVoxels
  /\ observers = <<>>
  /\ surface = <<>>
  /\ events = <<>>
  /\ raised = FALSE
  /\ last = <<>>
  /\ repeat = FALSE
  /\ nsets = 0
  /\ lastWritten = [c \in AllCoords |-> UNKNOWN]
  /\ calls = 0
  /\ snapshot = <<>>
  /\ \E v \in ServerTerrains :
       world = [f \in DOMAIN WorldInit \cup {"terrain"} |->
                  IF f = "terrain" THEN v ELSE WorldInit[f]]
  /\ servers = [s \in Clients |-> Gam3ServerInit]
  /\ environment = EnvironmentInit
  /\ controller = PlayerControllerInit
  /\ window = WindowInit
  /\ network = NetworkControllerInit

\* The i-th request of the latest check reaches the server, which answers
\* it with getTerrain; the client applies the answer with Terrain.set.
Answer(i) ==
  /\ nsets < SettleAnswers
  /\ i \in 1..Len(window.calls)
  /\ LET x == window.calls[i].x
         y == window.calls[i].y
         z == window.calls[i].z
         sent == getTerrain(world.terrain, x, y, z)
     IN  /\ sent # <<>>
         /\ Becomes(set(Objects, sent[1].x, sent[1].y, sent[1].z, sent[1].voxels))
         /\ last' = <<[origin |-> <<x, y, z>>, data |-> sent[1].voxels]>>
         /\ repeat' = (last = <<[origin |-> <<x, y, z>>, data |-> sent[1].voxels]>>)
         /\ nsets' = nsets + 1
         /\ lastWritten' =
              [c \in AllCoords |->
                 IF c \in Covered(<<x, y, z>>, sent[1].voxels.shape)
                 THEN sent[1].voxels.cells[<<c[1] - x, c[2] - y, c[3] - z>>]
                 ELSE lastWritten[c]]
         /\ window' = [window EXCEPT
                         !.calls = SubSeq(@, 1, i - 1) \o SubSeq(@, i + 1, Len(@)),
                         !.answered = <<<<x, y, z>>>>]
  /\ UNCHANGED <<observers, calls, snapshot, terrain, world, servers,
                 environment, controller, network>>

AnswerSome == \E i \in 1..Len(window.calls) : Answer(i)

NextSettle == CheckSome \/ AnswerSome

SpecSettle == InitSettle /\ [][NextSettle]_vars

(* ---------------- a client told of players by its server --------------- *)
\* The controller and its players have become n.
NetworkBecomes(n) ==
  /\ network' = n
  /\ UNCHANGED <<voxels, observers, surface, events, raised, last, repeat, nsets, lastWritten,
                 calls, snapshot, terrain, world, servers, environment, controller, window>>

\* The answer to Introduce arrives (network.py:238-246): the client's own
\* player is made under the identifier.
Introduced(identifier) ==
  /\ network.initialPlayer = NoPlayer
  /\ NetworkBecomes(createInitialPlayer(network, identifier))

\* The responder of a NewPlayer command, once there is an environment.
NewPlayer(identifier) ==
  /\ network.initialPlayer # NoPlayer
  /\ Len(network.objects) < MaxObjects
  /\ NetworkBecomes(newPlayer(network, identifier))

\* The controller and its players after a call of Player.setDirection on
\* the object, which has left them as n.
ObjectTurned(n, modelObject) ==
  NetworkBecomes([n EXCEPT !.turns = @ + 1, !.turned = modelObject])

\* The responder of a SetDirectionOf command.  An identifier the controller
\* does not know raises KeyError with nothing changed.
SetDirectionOf(identifier, direction) ==
  /\ network.turns < MaxCommands
  /\ identifier \in DOMAIN network.modelObjects
  /\ ObjectTurned(setDirectionOf(network, identifier, direction),
                  network.modelObjects[identifier])

\* The client's own player changes direction, as its PlayerController makes
\* it.
OwnDirection(direction) ==
  /\ network.turns < MaxCommands
  /\ network.initialPlayer # NoPlayer
  /\ ObjectTurned(ObjectSetDirection(network, network.initialPlayer, direction),
                  network.initialPlayer)

IntroducedSome == \E identifier \in Identifiers : Introduced(identifier)

NewPlayerSome == \E identifier \in Identifiers : NewPlayer(identifier)

SetDirectionOfSome ==
  \E identifier \in Identifiers : \E direction \in TurnDirections \cup {NoDirection} :
    SetDirectionOf(identifier, direction)

OwnDirectionSome == \E direction \in TurnDirections \cup {NoDirection} : OwnDirection(direction)

NextClient == IntroducedSome \/ NewPlayerSome \/ SetDirectionOfSome \/ OwnDirectionSome

SpecClient == InitObs /\ [][NextClient]_vars

(* ---------------- what the claims speak of ------------------------------ *)
Material(t) == t \notin {EMPTY, UNKNOWN}

\* The neighbour of a voxel across a face, stated on its own: top and bottom
\* along y, front and back along z, right and left along x.
Across(c, f) ==
  CASE f = TOP    -> <<c[1], c[2] + 1, c[3]>>
    [] f = BOTTOM -> <<c[1], c[2] - 1, c[3]>>
    [] f = FRONT  -> <<c[1], c[2], c[3] + 1>>
    [] f = BACK   -> <<c[1], c[2], c[3] - 1>>
    [] f = RIGHT  -> <<c[1] + 1, c[2], c[3]>>
    [] f = LEFT   -> <<c[1] - 1, c[2], c[3]>>

\* The exposed faces of the grid, by a scan of every voxel and every face.
ExposedFaces(v) ==
  {<<c[1], c[2], c[3], f>> : <<c, f>> \in
     {p \in Box(v.shape) \X (0..5) :
        /\ Material(v.cells[p[1]])
        /\ \/ Across(p[1], p[2]) \notin Box(v.shape)
           \/ ~Material(v.cells[Across(p[1], p[2])])}}

TheMesh == surface[1]

TrackedKeys == DOMAIN TheMesh.v2s

LiveCount == Current(TheMesh).important

\* C1: after every set call with a mesh subscribed, the tracked keys are
\* exactly the faces of material voxels whose neighbour is out of bounds,
\* Empty or Unknown.
C1_TrackedIsExposed == TrackedKeys = ExposedFaces(voxels)

\* C2: after every changed call, the important marker is six times the number
\* of exposed faces found by a scan of the whole grid.
C2_Conservation == LiveCount = 6 * Cardinality(ExposedFaces(voxels))

\* C3: the ranges recorded for the tracked keys are six rows each, pairwise
\* disjoint, and their union is exactly [0, important): after every set call,
\* and after every face handled inside one.
C3_NoOverlap == Tiling(TheMesh) /\ TheMesh.tiled

\* A set call that removed faces by moving the tail block into their place,
\* and left faces tracked.
C3_Witness ==
  /\ TheMesh.moved > 0
  /\ Cardinality(TrackedKeys) >= 6
  /\ Len(Current(TheMesh).data) > LiveCount

\* C4: when two face-adjacent voxels both hold materials, neither has a
\* tracked face pointing at the other.
C4_AdjacencySymmetry ==
  \A c \in Box(voxels.shape) : \A f \in 0..5 :
    (/\ Across(c, f) \in Box(voxels.shape)
     /\ Material(voxels.cells[c])
     /\ Material(voxels.cells[Across(c, f)]))
    => <<c[1], c[2], c[3], f>> \notin TrackedKeys

\* C5: a set call with the arguments of the call before it notifies once,
\* and leaves the grid, the tracked keys with their offsets, the vertex rows
\* and the important marker as the first call left them.
C5_Idempotence ==
  [][(nsets' = nsets + 1 /\ last' = last)
       => /\ voxels' = voxels
          /\ TheMesh'.v2s = TheMesh.v2s
          /\ TheMesh'.surfaces = TheMesh.surfaces
          /\ Len(events') = 1
          /\ ~raised']_vars

\* A repeated write of material over tracked faces, beside another voxel.
C5_Witness ==
  /\ repeat
  /\ \E c \in Covered(last[1].origin, last[1].data.shape) : Material(voxels.cells[c])
  /\ Cardinality(TrackedKeys) > 6

\* C6: every in-bounds cell holds the value of the latest write that covered
\* it, or Unknown if none did; a fresh Terrain is one Unknown voxel.
C6_LastWritten ==
  /\ \A c \in Box(voxels.shape) : voxels.cells[c] = lastWritten[c]
  /\ nsets = 0 => (voxels.shape = <<1, 1, 1>> /\ voxels.cells[<<0, 0, 0>>] = UNKNOWN)

\* Two writes with a gap between them, and a cell written twice.
C6_Witness ==
  /\ nsets = 3
  /\ voxels.shape = <<2, 2, 1>>
  /\ voxels.cells[<<1, 0, 0>>] = GRASS
  /\ voxels.cells[<<0, 1, 0>>] = EMPTY
  /\ voxels.cells[<<1, 1, 0>>] = UNKNOWN
  /\ voxels.cells[<<0, 0, 0>>] = UNKNOWN
  /\ last[1].origin = <<0, 1, 0>>
  /\ repeat = FALSE

ArgOrigin == last[1].origin

ArgData == last[1].data

\* C7: a set call that reaches past the bounds leaves, per axis, the larger of
\* the old extent and origin + shape(data); the cells data covers hold data,
\* every other old cell keeps its value, every other new cell is Unknown.
C7_Extension ==
  [][(nsets' = nsets + 1 /\
      \E a \in 1..3 : ArgOrigin'[a] + ArgData'.shape[a] > voxels.shape[a])
       => /\ \A a \in 1..3 :
               voxels'.shape[a] =
                 IF ArgOrigin'[a] + ArgData'.shape[a] > voxels.shape[a]
                 THEN ArgOrigin'[a] + ArgData'.shape[a] ELSE voxels.shape[a]
          /\ DOMAIN voxels'.cells = Box(voxels'.shape)
          /\ \A c \in Box(voxels'.shape) :
               voxels'.cells[c] =
                 IF c \in Covered(ArgOrigin', ArgData'.shape)
                 THEN ArgData'.cells[<<c[1] - ArgOrigin'[1], c[2] - ArgOrigin'[2],
                                       c[3] - ArgOrigin'[3]>>]
                 ELSE IF c \in Box(voxels.shape) THEN voxels.cells[c]
                 ELSE UNKNOWN]_vars

\* The second write reached past the x extent of a grid that the first write
\* had extended along y: the old material is kept, the corner is new.
C7_Witness ==
  /\ nsets = 2
  /\ voxels.shape = <<2, 2, 1>>
  /\ ArgOrigin = <<1, 0, 0>>
  /\ voxels.cells[<<1, 0, 0>>] = GRASS
  /\ voxels.cells[<<0, 1, 0>>] = GRASS
  /\ voxels.cells[<<1, 1, 0>>] = UNKNOWN

\* C8: no set call shrinks any dimension of the grid.
C8_Monotonic ==
  [][\A a \in 1..3 : voxels'.shape[a] >= voxels.shape[a]]_vars

\* A write without cells, inside the bounds of a grid that has grown.
C8_Witness ==
  /\ nsets = 3
  /\ voxels.shape = <<2, 1, 2>>
  /\ ArgData.shape = <<0, 0, 0>>
  /\ ArgOrigin = <<0, 1, 0>>

\* The calls a set call owes to the observers registered when it is made.
Owed(obs, origin, shape, v) ==
  [i \in 1..Len(obs) |-> [obs |-> obs[i], position |-> origin, shape |-> shape, seen |-> v]]

\* C9: a set call calls every registered observer once, in registration
\* order, with the origin and the shape of the data, the array already
\* written; an observer registered afterwards is not called for it.
C9_NotifyAll ==
  [][/\ nsets' = nsets + 1 =>
          events' = Owed(observers, ArgOrigin', ArgData'.shape, voxels')
     /\ observers' # observers => events' = events]_vars

\* Two recorders, called in the order they registered, reading the material
\* the call wrote.
C9_Witness ==
  /\ observers = <<"rec2", "rec1">>
  /\ Len(events) = 2
  /\ events[1].obs = "rec2" /\ events[2].obs = "rec1"
  /\ Volume(ArgData.shape) = 2
  /\ events[2].seen.cells[ArgOrigin] = GRASS
  /\ nsets = 2

\* C10: a write without cells, and a write that changes no cell, still call
\* every observer once with the origin and the full shape of the data.
C10_NotifyRegion ==
  [][(nsets' = nsets + 1 /\ (Volume(ArgData'.shape) = 0 \/ voxels' = voxels))
       => /\ Len(events') = Len(observers)
          /\ \A i \in 1..Len(events') :
               /\ events'[i].position = ArgOrigin'
               /\ events'[i].shape = ArgData'.shape]_vars

\* A write of shape (0, 0, 0) into a grid that holds material: both of the
\* two observers were called with that shape.
C10_Witness ==
  /\ nsets = 3
  /\ ArgData.shape = <<0, 0, 0>>
  /\ Len(observers) = 2
  /\ Len(events) = 2
  /\ events[1].shape = <<0, 0, 0>> /\ events[2].shape = <<0, 0, 0>>
  /\ voxels.shape = <<2, 1, 1>>
  /\ voxels.cells[<<1, 0, 0>>] = GRASS

\* C11: a neighbour outside the bounds of the grid, a negative coordinate
\* included, is never read and no call raises: every face of a material voxel
\* whose neighbour is out of bounds is tracked, and no face is tracked for a
\* coordinate outside the grid.
C11_OutOfBounds ==
  /\ ~raised
  /\ \A c \in Box(voxels.shape) : \A f \in 0..5 :
       (Material(voxels.cells[c]) /\ Across(c, f) \notin Box(voxels.shape))
         => <<c[1], c[2], c[3], f>> \in TrackedKeys
  /\ \A k \in TrackedKeys : <<k[1], k[2], k[3]>> \in Box(voxels.shape)

\* The latest call wrote Empty at the origin, whose left, bottom and back
\* neighbours have a negative coordinate, beside a material voxel at the far
\* edge of the grid.
C11_Witness ==
  /\ nsets >= 2
  /\ ArgOrigin = <<0, 0, 0>>
  /\ voxels.cells[<<0, 0, 0>>] = EMPTY
  /\ voxels.shape = <<2, 1, 1>>
  /\ voxels.cells[<<1, 0, 0>>] = GRASS
  /\ Cardinality(TrackedKeys) = 6

\* C12: when a face is removed by compaction and no key is found to own the
\* block at the end, the error is logged, nothing is raised, and the rows and
\* the important marker of the surface are as they were before the call.
C12_CompactFailure ==
  [][TheMesh'.logged # TheMesh.logged
       => /\ TheMesh'.logged = TheMesh.logged + 1
          /\ ~raised'
          /\ TheMesh'.surfaces = TheMesh.surfaces]_vars

\* An error was logged over a surface of two blocks, which are both still
\* there.
C12_Witness ==
  /\ TheMesh.logged = 1
  /\ LiveCount = 12
  /\ RowAt(Current(TheMesh), 6) = MangledRow
  /\ calls = 3

\* The rows TerrainView.paint draws of a surface (view.py:585-591).
Drawn(s) == 0 .. (s.important - 1)

\* C13: a face that does not fit in the current surface goes to a new surface
\* from the factory: no set call raises, every exposed face of a material
\* voxel the call wrote is tracked afterwards, and no surface holds more rows
\* than its capacity.
C13_NewSlab ==
  /\ ~raised
  /\ nsets > 0 =>
       \A c \in Covered(ArgOrigin, ArgData.shape) : \A f \in 0..5 :
         (Material(voxels.cells[c]) /\ <<c[1], c[2], c[3], f>> \in ExposedFaces(voxels))
           => <<c[1], c[2], c[3], f>> \in TrackedKeys
  /\ \A i \in 1..Len(TheMesh.surfaces) : TheMesh.surfaces[i].important <= TheMesh.surfaces[i].rows

\* C14: the important marker of every surface is a multiple of 6 between 0
\* and the capacity, and every row that is drawn lies in the block of a
\* tracked key and holds that face's vertex at that place.
C14_LiveRegion ==
  \A i \in 1..Len(TheMesh.surfaces) :
    LET s == TheMesh.surfaces[i]
    IN  /\ s.important % 6 = 0
        /\ 0 <= s.important /\ s.important <= s.rows
        /\ \A r \in Drawn(s) :
             \E k \in TrackedKeys :
               /\ r \in Range(TheMesh, k)
               /\ \E t \in DOMAIN TextureOffsets :
                    RowAt(s, r) = _makeFace(k[4], t, k[1], k[2], k[3])[r - TheMesh.v2s[k][1] + 1]

\* A call met the end of the surface: it raised with six faces in the
\* surface, after an earlier call had taken faces out again.
C14_Witness ==
  /\ raised
  /\ LiveCount = 36
  /\ Cardinality(TrackedKeys) = 6
  /\ voxels.cells[<<0, 0, 0>>] = EMPTY
  /\ nsets = 3

\* The grid v holds material at the coordinates in cs and nowhere else.
OnlyMaterial(v, cs) ==
  \A c \in Box(v.shape) : Material(v.cells[c]) <=> c \in cs

\* The six keys of a voxel.
KeysOf(c) == {<<c[1], c[2], c[3], f>> : f \in 0..5}

\* C15: a set call that writes one material voxel into a grid that holds no
\* material leaves exactly that voxel's six faces tracked, the important
\* marker at 36, and the blocks in the order top, front, bottom, back, left,
\* right from offset 0.
C15_OneVoxel ==
  [][(/\ nsets' = nsets + 1
      /\ ArgData'.shape = <<1, 1, 1>>
      /\ OnlyMaterial(voxels, {})
      /\ OnlyMaterial(voxels', {ArgOrigin'}))
       => /\ DOMAIN TheMesh'.v2s = KeysOf(ArgOrigin')
          /\ Current(TheMesh').important = 36
          /\ \A i \in 1..6 :
               TheMesh'.v2s[<<ArgOrigin'[1], ArgOrigin'[2], ArgOrigin'[3], FACES[i]>>]
                 = <<6 * (i - 1), 6>>]_vars

\* C16: two face-adjacent material voxels have no tracked face pointing at
\* each other, however the writes that made them arrived; when they are the
\* only material of the grid, exactly their other ten faces are tracked and
\* the important marker is 60.
C16_ObscuredFace ==
  \A a \in Box(voxels.shape) : \A f \in 0..5 :
    LET b == Across(a, f)
    IN  (b \in Box(voxels.shape) /\ Material(voxels.cells[a]) /\ Material(voxels.cells[b]))
          => /\ <<a[1], a[2], a[3], f>> \notin TrackedKeys
             /\ <<b[1], b[2], b[3], NEIGHBORS[f][4]>> \notin TrackedKeys
             /\ OnlyMaterial(voxels, {a, b})
                  => /\ TrackedKeys = (KeysOf(a) \cup KeysOf(b))
                                        \ {<<a[1], a[2], a[3], f>>,
                                            <<b[1], b[2], b[3], NEIGHBORS[f][4]>>}
                     /\ LiveCount = 60

\* C17: when a set call makes a material voxel Empty, none of that voxel's
\* keys is tracked afterwards and every in-bounds material neighbour's face
\* pointing at it is; a lone voxel going Empty leaves the important marker at
\* 0, and emptying one of two adjacent voxels leaves exactly the six faces of
\* the other.
C17_RevealedFace ==
  [][nsets' = nsets + 1 =>
      \A c \in Box(voxels.shape) :
        (Material(voxels.cells[c]) /\ voxels'.cells[c] = EMPTY)
          => /\ KeysOf(c) \cap DOMAIN TheMesh'.v2s = {}
             /\ OnlyMaterial(voxels, {c}) /\ OnlyMaterial(voxels', {})
                  => Current(TheMesh').important = 0
             /\ \A f \in 0..5 :
                  LET n == Across(c, f)
                  IN  (n \in Box(voxels'.shape) /\ Material(voxels'.cells[n]))
                        => /\ <<n[1], n[2], n[3], NEIGHBORS[f][4]>> \in DOMAIN TheMesh'.v2s
                           /\ OnlyMaterial(voxels, {c, n}) /\ OnlyMaterial(voxels', {n})
                                => /\ DOMAIN TheMesh'.v2s = KeysOf(n)
                                   /\ Current(TheMesh').important = 36]_vars

\* C18: Terrain.dict returns one entry per in-bounds cell that holds a
\* material, keyed by the coordinate with the cell's type as value, and no
\* entry for an Empty or Unknown cell.
C18_MaterialsDict ==
  [][(nsets' = nsets /\ snapshot' # snapshot)
       => /\ DOMAIN snapshot'[1] = {c \in Box(voxels.shape) : Material(voxels.cells[c])}
          /\ \A c \in DOMAIN snapshot'[1] : snapshot'[1][c] = voxels.cells[c]]_vars

\* A dict of two entries of different materials, read from a grid that also
\* holds an Empty and an Unknown cell.
C18_Witness ==
  /\ snapshot # <<>>
  /\ snapshot[1] = dict(voxels)
  /\ {snapshot[1][c] : c \in DOMAIN snapshot[1]} = {GRASS, MOUNTAIN}
  /\ \E c \in Box(voxels.shape) : voxels.cells[c] = EMPTY
  /\ \E c \in Box(voxels.shape) : voxels.cells[c] = UNKNOWN

\* C19: after a SetTerrain command is handled, the terrain model holds the
\* voxels in the sub-volume at (x, y, z), has grown on every axis the data
\* reaches past and on no other, and every cell it held outside that
\* sub-volume is unchanged.
C19_SetTerrain ==
  [][/\ ~raised'
     /\ \A a \in 1..3 :
          terrain'.shape[a] = Max(terrain.shape[a], ArgOrigin'[a] + ArgData'.shape[a])
     /\ \A c \in Box(terrain'.shape) :
          /\ c \in Covered(ArgOrigin', ArgData'.shape)
               => terrain'.cells[c] = ArgData'.cells[<<c[1] - ArgOrigin'[1], c[2] - ArgOrigin'[2],
                                                       c[3] - ArgOrigin'[3]>>]
          /\ (c \notin Covered(ArgOrigin', ArgData'.shape) /\ c \in Box(terrain.shape))
               => terrain'.cells[c] = terrain.cells[c]]_vars

\* The number of NewPlayer commands for the player among the commands sent.
NewPlayerCount(sent, player) ==
  Cardinality({i \in 1..Len(sent) :
                 sent[i].command = "NewPlayer" /\ sent[i].identifier = player})

\* C20: however createPlayer calls interleave with a client's Introduce and
\* its deferred sendExistingState, the client's server sends exactly one
\* NewPlayer for every other player that was in the world when
\* sendExistingState ran or was created afterwards, and none for the
\* client's own player.
C20_NewPlayerOnce ==
  \A s \in Clients : \A player \in 1..Len(world.made) :
    /\ player = servers[s].player => NewPlayerCount(servers[s].sent, player) = 0
    /\ (/\ servers[s].ran
        /\ player # servers[s].player
        /\ player \in servers[s].existing \/ player > servers[s].mark)
         => NewPlayerCount(servers[s].sent, player) = 1

\* A client was introduced after one player, another player came before its
\* sendExistingState ran and a third after it: three commands were sent.
C20_Witness ==
  \E s \in Clients :
    /\ servers[s].ran
    /\ servers[s].player = 2
    /\ servers[s].existing = {1, 2, 3}
    /\ Len(world.made) = 4
    /\ Len(servers[s].sent) = 3

\* The number of SetDirectionOf commands for the player among the commands
\* sent.
SetDirectionOfCount(sent, player) ==
  Cardinality({i \in 1..Len(sent) :
                 sent[i].command = "SetDirectionOf" /\ sent[i].identifier = player})

RemovePlayerCount(sent, player) ==
  Cardinality({i \in 1..Len(sent) :
                 sent[i].command = "RemovePlayer" /\ sent[i].identifier = player})

\* The players of the world, as a set.
PlayersOf(w) == {w.players[i] : i \in 1..Len(w.players)}

\* C22: a call of World.removePlayer takes the player out of the world's list
\* and calls playerRemoved once on every observer of the world and on nobody
\* else; a callback that looks finds the player no longer in the world.
C22_RemoveThenNotify ==
  [][Len(world'.players) < Len(world.players) =>
       \E gone \in PlayersOf(world) :
         /\ PlayersOf(world') = PlayersOf(world) \ {gone}
         /\ \A s \in Clients :
              servers'[s].sent =
                IF Holds(world.observers, s)
                THEN Append(servers[s].sent, [command |-> "RemovePlayer", identifier |-> gone])
                ELSE servers[s].sent
         /\ world'.recorded =
              IF Holds(world.observers, Observer)
              THEN Append(world.recorded,
                          [call |-> "playerRemoved", player |-> gone, existent |-> FALSE])
              ELSE world.recorded]_vars

\* A player has left a world watched by a server and by the recording
\* observer: each was told once.
C22_Witness ==
  /\ Len(world.players) < Len(world.made)
  /\ \E i \in 1..Len(world.recorded) : world.recorded[i].call = "playerRemoved"
  /\ \E s \in Clients : \E player \in 1..Len(world.made) :
       RemovePlayerCount(servers[s].sent, player) = 1

\* C23: when the platform clock of a started environment jumps by a whole
\* number of granules, more than one, the simulation time ends where it ends
\* when the platform clock advances through the same span granule by granule.
C23_Framedrop ==
  [][LET amount == environment'.platform.rightNow - environment.platform.rightNow
     IN  (/\ environment.platform.calls # <<>>
          /\ amount > Granule
          /\ amount % Granule = 0)
           => environment'.rightNow = smoothly(environment, amount \div Granule).rightNow]_vars

\* The direction of the latest of the keys, in the order of their presses,
\* whose direction is among ds, or zero when there is none.
LatestAmong(keys, ds, zero) ==
  LET at == {i \in 1..Len(keys) : KEYS_TO_DIRECTIONS[keys[i]] \in ds}
  IN  IF at = {} THEN zero
      ELSE KEYS_TO_DIRECTIONS[keys[CHOOSE i \in at : \A j \in at : j <= i]]

\* C24: after any key events the player's direction is the sum of the
\* direction of the most recently pressed forward or backward key still held
\* and that of the most recently pressed left or right key still held, and
\* None when no key is held; an event of a key that is no direction key
\* leaves the direction alone.
C24_HeldKeys ==
  /\ [](controller.direction =
          IF controller.held = <<>> THEN NoDirection
          ELSE Plus(LatestAmong(controller.held, {FORWARD, BACKWARD}, FORWARD_ZERO),
                    LatestAmong(controller.held, {DirLEFT, DirRIGHT}, SIDEWAYS_ZERO)))
  /\ [][(controller'.event # <<>> /\ controller'.event[1].key \notin DOMAIN KEYS_TO_DIRECTIONS)
          => (controller'.direction = controller.direction /\ controller'.sets = controller.sets)]_vars

\* The chunk origins within CHUNK_OFFSET chunks of the quantized position.
Near(position) ==
  LET q == [a \in 1..3 |-> position[a] - (position[a] % CHUNK_GRANULARITY[a])]
  IN  {<<q[1] + k[1] * CHUNK_GRANULARITY[1], q[2] + k[2] * CHUNK_GRANULARITY[2],
         q[3] + k[3] * CHUNK_GRANULARITY[3]>> :
         k \in ((-CHUNK_OFFSET[1])..CHUNK_OFFSET[1]) \X ((-CHUNK_OFFSET[2])..CHUNK_OFFSET[2])
                 \X ((-CHUNK_OFFSET[3])..CHUNK_OFFSET[3])}

\* The origins the calls ask for.
Asked(w) == {<<w.calls[i].x, w.calls[i].y, w.calls[i].z>> : i \in 1..Len(w.calls)}

C26_RemoteUnobserved ==
  /\ [](\A o \in 1..Len(network.objects) :
          Holds(network.objects[o].observers, Network) <=> o = network.initialPlayer)
  /\ [][network'.sent =
          IF network'.turns = network.turns + 1 /\ network'.turned = network.initialPlayer
          THEN Append(network.sent,
                      [command |-> "SetMyDirection",
                       direction |-> network'.objects[network'.turned].direction])
          ELSE network.sent]_vars

\* A SetDirectionOf has turned a remote player and the own player has turned
\* too: one SetMyDirection was sent.
C26_Witness ==
  /\ network.turns = 2
  /\ Len(network.sent) = 1
  /\ network.turned # network.initialPlayer
  /\ network.objects[network.turned].direction # NoDirection

\* C27: when the block of a removed face is the last live block, the
\* important marker drops by exactly 6, no row below the new marker changes
\* and no other key's entry changes.
C27_FastPath ==
  [][\A key \in TrackedKeys :
       (key \notin DOMAIN TheMesh'.v2s /\ TheMesh.v2s[key] = <<LiveCount - 6, 6>>) =>
         /\ LiveCount' = LiveCount - 6
         /\ \A r \in 0..(LiveCount' - 1) :
              RowAt(Current(TheMesh'), r) = RowAt(Current(TheMesh), r)
         /\ DOMAIN TheMesh'.v2s = TrackedKeys \ {key}
         /\ \A k \in TrackedKeys \ {key} : TheMesh'.v2s[k] = TheMesh.v2s[k]]_vars

\* The last three faces of the voxel were removed, each when its block was
\* the last: the first three are where they were and nothing was relocated.
C27_Witness ==
  /\ calls = 3
  /\ LiveCount = 18
  /\ TheMesh.moved = 0
  /\ TheMesh.logged = 0
  /\ TheMesh.v2s = [k \in {<<0, 0, 0, FACES[i]>> : i \in 1..3} |->
                      <<6 * ((CHOOSE i \in 1..3 : FACES[i] = k[4]) - 1), 6>>]
  /\ Len(Current(TheMesh).data) = 36

\* The rows of every tracked key are the vertices of its face, as _makeFace
\* makes them for grass.
Genuine(m) ==
  \A k \in DOMAIN m.v2s :
    \A i \in 1..6 :
      RowAt(Current(m), m.v2s[k][1] + i - 1) = _makeFace(k[4], GRASS, k[1], k[2], k[3])[i]

\* C28: when the block of a removed face is not the last live block of a mesh
\* whose blocks hold the faces of their keys, the six rows of the last block
\* are copied as they are to the freed offset, the entry of the last block's
\* owner becomes the freed offset, the important marker drops by exactly 6,
\* every other entry and every other live row is as before and no error is
\* logged, whichever face the last block holds.
C28_Compaction ==
  [][\A key \in TrackedKeys :
       (/\ key \notin DOMAIN TheMesh'.v2s
        /\ Tiling(TheMesh)
        /\ Genuine(TheMesh)
        /\ TheMesh.v2s[key][1] # LiveCount - 6) =>
         LET begin == TheMesh.v2s[key][1]
             end == LiveCount - 6
             owner == CHOOSE k \in TrackedKeys : TheMesh.v2s[k] = <<end, 6>>
         IN  /\ LiveCount' = end
             /\ \A i \in 0..5 :
                  RowAt(Current(TheMesh'), begin + i) = RowAt(Current(TheMesh), end + i)
             /\ DOMAIN TheMesh'.v2s = TrackedKeys \ {key}
             /\ TheMesh'.v2s[owner] = <<begin, 6>>
             /\ \A k \in TrackedKeys \ {key, owner} : TheMesh'.v2s[k] = TheMesh.v2s[k]
             /\ \A r \in (0..(end - 1)) \ (begin..(begin + 5)) :
                  RowAt(Current(TheMesh'), r) = RowAt(Current(TheMesh), r)
             /\ TheMesh'.logged = TheMesh.logged]_vars

\* The first three faces of the voxel were removed in turn, the last block
\* holding the right, the left and the back face: each was relocated.
C28_Witness ==
  /\ calls = 3
  /\ LiveCount = 18
  /\ TheMesh.moved = 3
  /\ TheMesh.logged = 0
  /\ Genuine(TheMesh)
  /\ TheMesh.v2s = [k \in {<<0, 0, 0, f>> : f \in {RIGHT, LEFT, BACK}} |->
                      IF k[4] = RIGHT THEN <<0, 6>>
                      ELSE IF k[4] = LEFT THEN <<6, 6>> ELSE <<12, 6>>]

\* Is d before c, x first and z last?
Before(d, c) ==
  \/ d[1] < c[1]
  \/ d[1] = c[1] /\ d[2] < c[2]
  \/ d[1] = c[1] /\ d[2] = c[2] /\ d[3] < c[3]

\* The coordinates of a region, in that order.
RegionCells(origin, shape) ==
  LET region == Covered(origin, shape)
  IN  [i \in 1..Cardinality(region) |->
         CHOOSE c \in region : Cardinality({d \in region : Before(d, c)}) = i - 1]

RECURSIVE Treated(_, _, _, _)
\* The mesh after each of the coordinates, from the i-th on, was treated by
\* the value the grid holds there.
Treated(m, v, cs, i) ==
  IF i > Len(cs) THEN m
  ELSE Treated(CASE v.cells[cs[i]] = EMPTY -> _removeVoxel(m, v, cs[i][1], cs[i][2], cs[i][3])
                 [] v.cells[cs[i]] = UNKNOWN -> m
                 [] OTHER -> _addVoxel(m, v, cs[i][1], cs[i][2], cs[i][3]),
               v, cs, i + 1)

\* Two meshes with the same entries, surfaces and count of logged errors.
SameMesh(a, b) == a.v2s = b.v2s /\ a.surfaces = b.surfaces /\ a.logged = b.logged

\* C29: a changed notification leaves the mesh as treating each coordinate of
\* the region by the value the grid holds there leaves it: _removeVoxel for
\* Empty, _addVoxel for a material, nothing for Unknown; after a notification
\* whose region holds only Unknown the entries, the rows and the important
\* marker are as before.
C29_ChangedByValue ==
  [][nsets' = nsets + 1 =>
       /\ SameMesh(TheMesh', Treated(TheMesh, voxels',
                                     RegionCells(ArgOrigin', ArgData'.shape), 1))
       /\ (\A c \in Covered(ArgOrigin', ArgData'.shape) : voxels'.cells[c] = UNKNOWN)
            => SameMesh(TheMesh', TheMesh)]_vars

\* A write of Unknown alone has covered a voxel whose faces the mesh tracks:
\* they are tracked still.
C29_Witness ==
  /\ nsets > 0
  /\ Volume(ArgData.shape) > 0
  /\ \A c \in Covered(ArgOrigin, ArgData.shape) : voxels.cells[c] = UNKNOWN
  /\ \E key \in TrackedKeys : <<key[1], key[2], key[3]>> \in Covered(ArgOrigin, ArgData.shape)

\* The entries a mesh tracks and its important marker agree with another's.
SameFaces(a, b) == DOMAIN a.v2s = DOMAIN b.v2s /\ Current(a).important = Current(b).important

\* C30: a mesh constructed over the terrain as the set calls have left it
\* tracks the keys, and has the important marker, of the mesh that was
\* subscribed to the terrain before the calls.
C30_ExistingTerrain == SameFaces(SurfaceMeshInit(voxels, SlabRows), TheMesh)

\* C31: when a set call returns, the mesh's changed callback has run once and
\* to its end, over the grid as the call leaves it: the mesh is what changed
\* makes of the mesh before the call and the written grid, and the grid the
\* callback read is the grid at the return.
C31_Synchronous ==
  [][nsets' = nsets + 1 =>
       /\ Len(events') = 1
       /\ events'[1].obs = "mesh"
       /\ events'[1].seen = voxels'
       /\ SameMesh(TheMesh', changed(TheMesh, voxels', ArgOrigin', ArgData'.shape))
       /\ ~raised']_vars

\* A set call has written material beside a tracked voxel and returned: the
\* faces of the new voxel are tracked already.
C31_Witness ==
  /\ nsets = 2
  /\ Len(events) = 1
  /\ events[1].seen = voxels
  /\ Volume(ArgData.shape) = 1
  /\ Material(voxels.cells[ArgOrigin])
  /\ \A f \in {TOP, BOTTOM} : <<ArgOrigin[1], ArgOrigin[2], ArgOrigin[3], f>> \in TrackedKeys
  /\ Cardinality(TrackedKeys) = 10

\* The calls pending with the platform clock.
Pending == environment.platform.calls

C33_Vertices ==
  \A k \in TrackedKeys :
    LET c == <<k[1], k[2], k[3]>>
    IN  /\ c \in Box(voxels.shape)
        /\ voxels.cells[c] \in DOMAIN TextureOffsets
        /\ \A i \in 1..6 :
             RowAt(Current(TheMesh), TheMesh.v2s[k][1] + i - 1) =
               _makeFace(k[4], voxels.cells[c], k[1], k[2], k[3])[i]

\* C34: whatever set calls were made on a terrain with a subscribed mesh
\* whose surface is never full, no compaction has failed to find the owner of
\* the last block: no error was logged.
C34_OwnerFound == TheMesh.logged = 0

\* A set call has emptied a voxel and the last blocks were moved into the
\* place of its faces, one after the other, their owners found.
C34_Witness ==
  /\ TheMesh.logged = 0
  /\ TheMesh.moved >= 3
  /\ \E c \in Covered(ArgOrigin, ArgData.shape) : voxels.cells[c] = EMPTY
  /\ TrackedKeys # {}

\* The orders the cells of a region can be taken in.
Orders(region) ==
  {p \in [1..Cardinality(region) -> region] : \A i, j \in DOMAIN p : p[i] = p[j] => i = j}

\* The data of one voxel.
OneVoxel(value) == [shape |-> <<1, 1, 1>>, cells |-> [c \in Box(<<1, 1, 1>>) |-> value]]

RECURSIVE OneByOne(_, _, _, _, _, _)
\* Do the objects, after the cells of the data were written by a set call
\* each in the given order, from the i-th on, track the keys of the mesh m
\* below its important marker?
OneByOne(w, m, origin, data, order, i) ==
  IF i > Len(order) THEN SameFaces(m, w.surface[1])
  ELSE \E next \in {set(w, order[i][1], order[i][2], order[i][3],
                        OneVoxel(data.cells[<<order[i][1] - origin[1], order[i][2] - origin[2],
                                              order[i][3] - origin[3]>>]))} :
         OneByOne(next, m, origin, data, order, i + 1)

\* C35: a set call that writes several voxels leaves the tracked keys and the
\* important marker that writing the same cells by one set call each leaves,
\* from the same state and in whatever order.
C35_Batching ==
  [][(nsets' = nsets + 1 /\ Volume(ArgData'.shape) >= 2) =>
       \A order \in Orders(Covered(ArgOrigin', ArgData'.shape)) :
         \E w \in {Objects} : \E m \in {TheMesh'} :
           OneByOne(w, m, ArgOrigin', ArgData', order, 1)]_vars

\* C36: when no set call writes Unknown over a material, after every call the
\* tracked keys are exactly the exposed faces of the material voxels, and
\* every tracked key is of a voxel that holds a material.
C36_KnownTrackedIsExposed ==
  /\ TrackedKeys = ExposedFaces(voxels)
  /\ \A k \in TrackedKeys :
       /\ <<k[1], k[2], k[3]>> \in Box(voxels.shape)
       /\ Material(voxels.cells[<<k[1], k[2], k[3]>>])

\* The grid has grown and holds an emptied voxel beside a material one, whose
\* face towards it is tracked again after the faces of the other were taken
\* out.
C36_Witness ==
  /\ nsets = 3
  /\ voxels.shape # <<1, 1, 1>>
  /\ TheMesh.moved > 0
  /\ \E c \in Box(voxels.shape) : \E f \in 0..5 :
       /\ voxels.cells[c] = MOUNTAIN
       /\ Across(c, f) \in Box(voxels.shape)
       /\ voxels.cells[Across(c, f)] = EMPTY
       /\ <<c[1], c[2], c[3], f>> \in TrackedKeys
       /\ TheMesh.v2s[<<c[1], c[2], c[3], f>>][1] >= 30

\* The distance between two voxels, along the axes.
Apart(a, b) ==
  LET d(i) == IF a[i] > b[i] THEN a[i] - b[i] ELSE b[i] - a[i]
  IN  d(1) + d(2) + d(3)

\* C37: the keys a set call's notification adds to or takes from the mesh
\* are of voxels inside the written region or across a face from one of its
\* voxels; the keys of every other voxel are tracked as before, at their
\* offsets or, moved by a compaction, at lower ones.
C37_Locality ==
  [][nsets' = nsets + 1 =>
       \A k \in TrackedKeys \cup DOMAIN TheMesh'.v2s :
         \/ \E c \in Covered(ArgOrigin', ArgData'.shape) : Apart(<<k[1], k[2], k[3]>>, c) <= 1
         \/ /\ k \in TrackedKeys
            /\ k \in DOMAIN TheMesh'.v2s
            /\ TheMesh'.v2s[k][1] <= TheMesh.v2s[k][1]
            /\ TheMesh'.v2s[k][1] < TheMesh.v2s[k][1] => TheMesh'.moved > 0]_vars

\* The voxel at (1, 0, 0) was emptied and the blocks of the six faces of the
\* voxel at (0, 1, 0), which is not beside it, were moved into the place of
\* its faces: all six are tracked still.
C37_Witness ==
  /\ nsets = 3
  /\ ArgOrigin = <<1, 0, 0>>
  /\ ArgData.shape = <<1, 1, 1>>
  /\ voxels.cells[<<1, 0, 0>>] = EMPTY
  /\ TheMesh.moved > 0
  /\ LiveCount = 36
  /\ TrackedKeys = {<<0, 1, 0, f>> : f \in 0..5}

\* C38: once the server has answered the request for an origin and the
\* client has applied the answer with Terrain.set, the next check of the
\* terrain for a player at the same position does not ask for that origin
\* again.
C38_Settles ==
  [][(/\ window.answered # <<>>
      /\ nsets' = nsets
      /\ window'.position = window.position)
       => window.answered[1] \notin Asked(window')]_vars

\* C39: once the connection of a client is lost, the world no longer holds
\* the client's player, its server has sent no command since the call of
\* connectionLost began, and no identifier the server sent a RemovePlayer
\* for is among those it can resolve.
C39_LostIsSilent ==
  \A s \in Clients :
    servers[s].lost =>
      /\ ~Holds(world.players, servers[s].player)
      /\ Len(servers[s].sent) = servers[s].lostAt
      /\ \A i \in 1..Len(servers[s].sent) :
           servers[s].sent[i].command = "RemovePlayer" =>
             servers[s].sent[i].identifier \notin servers[s].players

====
